---- MODULE Spec2Model ----
(***************************************************************************)
(* AsciiMath to MathML converter: the scanner, the symbol table and the    *)
(* recursive-descent grammar (exprParser / iexprParser / parseSExpr, the   *)
(* symbol parsers and the matrix sub-grammar), as an explicit call-stack   *)
(* machine.                                                                *)
(*                                                                         *)
(* Strings are sequences of units.  An input is a sequence of one-char     *)
(* strings.  An output is a sequence of units whose concatenation is the   *)
(* string the code returns: markup delimiters ("<", "</", ">", "/>", "=",  *)
(* a quote, a blank), tag and attribute names, attribute values, and       *)
(* content characters.  A character outside ASCII is written as its        *)
(* \uXXXX escape, as in the source.                                        *)
(***************************************************************************)
EXTENDS Integers, Sequences, FiniteSets, TLC

VARIABLES
    input,       \* Scanner.input: the AsciiMath text
    inline,      \* the inline flag of asciiToMathML
    pos,         \* Scanner.pos
    charTables,  \* Scanner.charTables: stack of character table names
    stack,       \* call stack: one frame per active procedure
    ret,         \* value returned by the procedure that returned last
    result,      \* string returned by asciiToMathML
    status,      \* "running" until asciiToMathML has returned, then "done"
    other,       \* the Scanner and call stack of a second call running meanwhile
    heap         \* the arrays two calls can both reach, by address

vars ==
    <<input, inline, pos, charTables, stack, ret, result, status, other, heap>>

----------------------------------------------------------------------------
(* Bounds of the model.                                                    *)

MaxTokens == 3
MaxRows == 2
MaxCols == 2
MaxTerms == 6

----------------------------------------------------------------------------
(* JavaScript values.                                                      *)

\* The value of input[i] outside the string, and of an empty stack's top.
Undefined == "undefined"

\* A test that knows the blank only.
isBlank(c) == c = " "

\* /\s/.test(c): the blank, tab, line feed, carriage return, form feed,
\* vertical tab U+000B, no-break space U+00A0, U+1680, the byte order mark
\* U+FEFF, and the space and line separators U+2000..U+200A, U+2028,
\* U+2029, U+202F, U+205F, U+3000.  A string of this language cannot hold
\* the separators from U+2000 to U+3000, so a unit for one of them is
\* written as its escape.
SpaceSeparators ==
    { "\\u2000", "\\u2001", "\\u2002", "\\u2003", "\\u2004",
      "\\u2005", "\\u2006", "\\u2007", "\\u2008", "\\u2009",
      "\\u200a", "\\u2028", "\\u2029", "\\u202f", "\\u205f", "\\u3000" }

isSpace(c) ==
    \/ c \in {" ", "\t", "\n", "\r", "\f", "", " ", " ", "﻿"}
    \/ c \in SpaceSeparators

\* /\d/.test(c)
isDigit(c) == c \in {"0", "1", "2", "3", "4", "5", "6", "7", "8", "9"}

\* /[\d\.]/.test(c)
isDigitOrDot(c) == isDigit(c) \/ c = "."

UpperCase ==
    << "A", "B", "C", "D", "E", "F", "G", "H", "I", "J", "K", "L", "M",
       "N", "O", "P", "Q", "R", "S", "T", "U", "V", "W", "X", "Y", "Z" >>

LowerCase ==
    << "a", "b", "c", "d", "e", "f", "g", "h", "i", "j", "k", "l", "m",
       "n", "o", "p", "q", "r", "s", "t", "u", "v", "w", "x", "y", "z" >>

\* text.charCodeAt(i) for the ASCII letters; every other unit gets 0, a code
\* outside both letter ranges, which is all convertText distinguishes.
charCodeAt(c) ==
    IF \E i \in 1..26 : UpperCase[i] = c
    THEN 64 + (CHOOSE i \in 1..26 : UpperCase[i] = c)
    ELSE IF \E i \in 1..26 : LowerCase[i] = c
    THEN 96 + (CHOOSE i \in 1..26 : LowerCase[i] = c)
    ELSE 0

\* s[i] with a 0-based index; undefined outside the string.
charAt(s, i) == IF i >= 0 /\ i < Len(s) THEN s[i + 1] ELSE Undefined

\* s.slice(from, to) for 0 <= from.
slice(s, from, to) ==
    SubSeq(s, from + 1, IF to < Len(s) THEN to ELSE Len(s))

\* `<tag>` and `</tag>`
Open(tag) == <<"<", tag, ">">>
Close(tag) == <<"</", tag, ">">>

----------------------------------------------------------------------------
(* Character tables.                                                       *)

calTable ==
    << "\\uD835\\uDC9C", "\\u212C", "\\uD835\\uDC9E", "\\uD835\\uDC9F",
       "\\u2130", "\\u2131", "\\uD835\\uDCA2", "\\u210B",
       "\\u2110", "\\uD835\\uDCA5", "\\uD835\\uDCA6", "\\u2112",
       "\\u2133", "\\uD835\\uDCA9", "\\uD835\\uDCAA", "\\uD835\\uDCAB",
       "\\uD835\\uDCAC", "\\u211B", "\\uD835\\uDCAE", "\\uD835\\uDCAF",
       "\\uD835\\uDCB0", "\\uD835\\uDCB1", "\\uD835\\uDCB2", "\\uD835\\uDCB3",
       "\\uD835\\uDCB4", "\\uD835\\uDCB5", "\\uD835\\uDCB6", "\\uD835\\uDCB7",
       "\\uD835\\uDCB8", "\\uD835\\uDCB9", "\\u212F", "\\uD835\\uDCBB",
       "\\u210A", "\\uD835\\uDCBD", "\\uD835\\uDCBE", "\\uD835\\uDCBF",
       "\\uD835\\uDCC0", "\\uD835\\uDCC1", "\\uD835\\uDCC2", "\\uD835\\uDCC3",
       "\\u2134", "\\uD835\\uDCC5", "\\uD835\\uDCC6", "\\uD835\\uDCC7",
       "\\uD835\\uDCC8", "\\uD835\\uDCC9", "\\uD835\\uDCCA", "\\uD835\\uDCCB",
       "\\uD835\\uDCCC", "\\uD835\\uDCCD", "\\uD835\\uDCCE", "\\uD835\\uDCCF" >>

frkTable ==
    << "\\uD835\\uDD04", "\\uD835\\uDD05", "\\u212D", "\\uD835\\uDD07",
       "\\uD835\\uDD08", "\\uD835\\uDD09", "\\uD835\\uDD0A", "\\u210C",
       "\\u2111", "\\uD835\\uDD0D", "\\uD835\\uDD0E", "\\uD835\\uDD0F",
       "\\uD835\\uDD10", "\\uD835\\uDD11", "\\uD835\\uDD12", "\\uD835\\uDD13",
       "\\uD835\\uDD14", "\\u211C", "\\uD835\\uDD16", "\\uD835\\uDD17",
       "\\uD835\\uDD18", "\\uD835\\uDD19", "\\uD835\\uDD1A", "\\uD835\\uDD1B",
       "\\uD835\\uDD1C", "\\u2128", "\\uD835\\uDD1E", "\\uD835\\uDD1F",
       "\\uD835\\uDD20", "\\uD835\\uDD21", "\\uD835\\uDD22", "\\uD835\\uDD23",
       "\\uD835\\uDD24", "\\uD835\\uDD25", "\\uD835\\uDD26", "\\uD835\\uDD27",
       "\\uD835\\uDD28", "\\uD835\\uDD29", "\\uD835\\uDD2A", "\\uD835\\uDD2B",
       "\\uD835\\uDD2C", "\\uD835\\uDD2D", "\\uD835\\uDD2E", "\\uD835\\uDD2F",
       "\\uD835\\uDD30", "\\uD835\\uDD31", "\\uD835\\uDD32", "\\uD835\\uDD33",
       "\\uD835\\uDD34", "\\uD835\\uDD35", "\\uD835\\uDD36", "\\uD835\\uDD37" >>

bbbTable ==
    << "\\uD835\\uDD38", "\\uD835\\uDD39", "\\u2102", "\\uD835\\uDD3B",
       "\\uD835\\uDD3C", "\\uD835\\uDD3D", "\\uD835\\uDD3E", "\\u210D",
       "\\uD835\\uDD40", "\\uD835\\uDD41", "\\uD835\\uDD42", "\\uD835\\uDD43",
       "\\uD835\\uDD44", "\\u2115", "\\uD835\\uDD46", "\\u2119",
       "\\u211A", "\\u211D", "\\uD835\\uDD4A", "\\uD835\\uDD4B",
       "\\uD835\\uDD4C", "\\uD835\\uDD4D", "\\uD835\\uDD4E", "\\uD835\\uDD4F",
       "\\uD835\\uDD50", "\\u2124", "\\uD835\\uDD52", "\\uD835\\uDD53",
       "\\uD835\\uDD54", "\\uD835\\uDD55", "\\uD835\\uDD56", "\\uD835\\uDD57",
       "\\uD835\\uDD58", "\\uD835\\uDD59", "\\uD835\\uDD5A", "\\uD835\\uDD5B",
       "\\uD835\\uDD5C", "\\uD835\\uDD5D", "\\uD835\\uDD5E", "\\uD835\\uDD5F",
       "\\uD835\\uDD60", "\\uD835\\uDD61", "\\uD835\\uDD62", "\\uD835\\uDD63",
       "\\uD835\\uDD64", "\\uD835\\uDD65", "\\uD835\\uDD66", "\\uD835\\uDD67",
       "\\uD835\\uDD68", "\\uD835\\uDD69", "\\uD835\\uDD6A", "\\uD835\\uDD6B" >>
charTableOf(name) ==
    CASE name = "calTable" -> calTable
      [] name = "frkTable" -> frkTable
      [] name = "bbbTable" -> bbbTable

convertText(text, table) ==
    IF table = Undefined
    THEN text
    ELSE [i \in 1..Len(text) |->
            LET ch == charCodeAt(text[i])
            IN  IF ch >= 65 /\ ch < 91 THEN charTableOf(table)[ch - 65 + 1]
                ELSE IF ch >= 97 /\ ch < 123 THEN charTableOf(table)[ch - 71 + 1]
                ELSE text[i]]

----------------------------------------------------------------------------
(* Symbols.  A symbol is its kind, its input pattern and its parser: the   *)
(* name of the parser function and the arguments the closure captured.     *)

Symbol(kind, inp, parser, a, b) ==
    [kind |-> kind, input |-> inp, parser |-> parser, a |-> a, b |-> b]

NoSymbol == Symbol("None", <<>>, "none", <<>>, <<>>)

text(inp) == Symbol("Default", inp, "text", <<>>, <<>>)

number(inp) == Symbol("Default", inp, "number", <<>>, <<>>)

error(msg) == Symbol("Default", <<>>, "error", msg, <<>>)

\* An end-of-input symbol that renders the diagnostic of a missing bracket.
eofDiagnostic ==
    Symbol("Eof", <<>>, "error", <<"Missing closing paren">>, <<>>)

eof == Symbol("Eof", <<>>, "eof", <<>>, <<>>)

ident(inp, output) == Symbol("Default", inp, "ident", output, <<>>)

oper(inp, output) == Symbol("Default", inp, "oper", output, <<>>)

textOper(inp, output) == Symbol("Default", inp, "textOper", output, <<>>)

underOverOper(inp, op) == Symbol("UnderOver", inp, "underOverOper", op, <<>>)

\* A left bracket that is never shown.
leftBracketHidden(inp, output) ==
    Symbol("LeftBracket", inp, "leftBracket", <<>>, <<>>)

leftBracket(inp, output) ==
    Symbol("LeftBracket", inp, "leftBracket", output, <<>>)

rightBracket(inp, output) ==
    Symbol("RightBracket", inp, "rightBracket", output, <<>>)

unary(inp, op) ==
    Symbol("Default", inp, "unaryParser", Open("mo") \o op \o Close("mo"), <<>>)

unaryEmbed(inp, tag) == Symbol("Default", inp, "unaryEmbedParser", tag, <<>>)

unaryUnderOver(inp, tag, arg2) ==
    Symbol("UnderOver", inp, "unaryEmbedWithParser", tag,
           Open("mo") \o arg2 \o Close("mo"))

unarySurround(inp, left, right) ==
    Symbol("Default", inp, "unarySurroundParser",
           Open("mo") \o left \o Close("mo"), Open("mo") \o right \o Close("mo"))

unaryAttr(inp, tag, attr) ==
    Symbol("Default", inp, "unaryAttrParser", tag, attr)

unaryCharTable(inp, table) ==
    Symbol("Default", inp, "unaryCharTableParser", <<table>>, <<>>)

binaryEmbed(inp, tag) == Symbol("Default", inp, "binaryEmbedParser", tag, <<>>)

binaryAttr(inp, tag, attr) ==
    Symbol("Default", inp, "binaryAttrParser", tag, attr)

leftMatrix(inp, output) ==
    Symbol("MatrixLeftBracket", inp, "matrixParser",
           IF output # <<>> THEN Open("mo") \o output \o Close("mo") ELSE <<>>,
           <<>>)

rightMatrix(inp, output) ==
    Symbol("MatrixRightBracket", inp, "rightMatrix", output, <<>>)

matrixCellSep(inp) == Symbol("MatrixCellSep", inp, "matrixCellSep", <<>>, <<>>)

matrixRowSep(inp) == Symbol("MatrixRowSep", inp, "matrixRowSep", <<>>, <<>>)

----------------------------------------------------------------------------
(* The symbol table: for each first character, the candidates in the       *)
(* order of the source.                                                    *)

symbolKeys ==
    { "a", "A", "b", "B", "c", "C", "d", "D", "e", "E", "f", "F", "g", "G", "h", "H",
      "i", "I", "j", "J", "k", "K", "l", "L", "m", "M", "n", "N", "o", "O", "p", "P",
      "q", "Q", "r", "R", "s", "S", "t", "T", "u", "U", "v", "V", "w", "W", "x", "X",
      "y", "Y", "z", "Z", "-", "*", "+", "/", "\\", "|", "<", ">", "=", "@", "^", "~",
      "!", ":", ";", ".", ",", "_", "'", "(", ")", "[", "]", "{", "}" }

symbols(c) ==
    CASE
       c = "a" -> <<
        unary(<<"a", "r", "c", "s", "i", "n">>, <<"a", "r", "c", "s", "i", "n">>),
        unary(<<"a", "r", "c", "c", "o", "s">>, <<"a", "r", "c", "c", "o", "s">>),
        unary(<<"a", "r", "c", "t", "a", "n">>, <<"a", "r", "c", "t", "a", "n">>),
        ident(<<"a", "l", "p", "h", "a">>, <<"\\u03B1">>),
        oper(<<"a", "l", "e", "p", "h">>, <<"\\u2135">>),
        unarySurround(<<"a", "b", "s">>, <<"|">>, <<"|">>),
        textOper(<<"a", "n", "d">>, <<"a", "n", "d">>),
        ident(<<"a">>, <<"a">>) >>
    [] c = "A" -> <<
        unary(<<"A", "r", "c", "s", "i", "n">>, <<"A", "r", "c", "s", "i", "n">>),
        unary(<<"A", "r", "c", "c", "o", "s">>, <<"A", "r", "c", "c", "o", "s">>),
        unary(<<"A", "r", "c", "t", "a", "n">>, <<"A", "r", "c", "t", "a", "n">>),
        unarySurround(<<"A", "b", "s">>, <<"|">>, <<"|">>),
        oper(<<"A", "A">>, <<"\\u2200">>),
        ident(<<"A">>, <<"A">>) >>
    [] c = "b" -> <<
        ident(<<"b", "e", "t", "a">>, <<"\\u03B2">>),
        unaryUnderOver(<<"b", "a", "r">>, <<"mover">>, <<"\\u00AF">>),
        unaryCharTable(<<"b", "b", "b">>, "bbbTable"),
        unaryAttr(<<"b", "b">>, <<"mstyle">>, <<"style", "=", "\"", "font-weight: bold", "\"">>),
        ident(<<"b">>, <<"b">>) >>
    [] c = "B" -> <<
        ident(<<"B">>, <<"B">>) >>
    [] c = "c" -> <<
        unaryAttr(<<"c", "a", "n", "c", "e", "l">>, <<"menclose">>, <<"notation", "=", "\"", "updiagonalstrike", "\"">>),
        binaryAttr(<<"c", "o", "l", "o", "r">>, <<"mstyle">>, <<"mathcolor">>),
        binaryAttr(<<"c", "l", "a", "s", "s">>, <<"mrow">>, <<"class">>),
        oper(<<"c", "d", "o", "t", "s">>, <<"\\u22EF">>),
        unarySurround(<<"c", "e", "i", "l">>, <<"\\u2308">>, <<"\\u2309">>),
        unary(<<"c", "o", "s", "h">>, <<"c", "o", "s", "h">>),
        unary(<<"c", "s", "c", "h">>, <<"c", "s", "c", "h">>),
        unary(<<"c", "o", "s">>, <<"c", "o", "s">>),
        unary(<<"c", "o", "t">>, <<"c", "o", "t">>),
        unary(<<"c", "s", "c">>, <<"c", "s", "c">>),
        ident(<<"c", "h", "i">>, <<"\\u03C7">>),
        unaryCharTable(<<"c", "c">>, "calTable"),
        ident(<<"c">>, <<"c">>) >>
    [] c = "C" -> <<
        unary(<<"C", "o", "s", "h">>, <<"C", "o", "s", "h">>),
        unary(<<"C", "o", "s">>, <<"C", "o", "s">>),
        unary(<<"C", "o", "t">>, <<"C", "o", "t">>),
        unary(<<"C", "s", "c">>, <<"C", "s", "c">>),
        oper(<<"C", "C">>, <<"\\u2102">>),
        ident(<<"C">>, <<"C">>) >>
    [] c = "d" -> <<
        oper(<<"d", "i", "a", "m", "o", "n", "d", "s">>, <<"\\u22C4">>),
        ident(<<"d", "e", "l", "t", "a">>, <<"\\u03B4">>),
        oper(<<"d", "d", "o", "t", "s">>, <<"\\u22F1">>),
        unaryUnderOver(<<"d", "d", "o", "t">>, <<"mover">>, <<".", ".">>),
        oper(<<"d", "a", "r", "r">>, <<"\\u2193">>),
        oper(<<"d", "e", "l">>, <<"\\u2202">>),
        unary(<<"d", "e", "t">>, <<"d", "e", "t">>),
        unaryUnderOver(<<"d", "o", "t">>, <<"mover">>, <<".">>),
        textOper(<<"d", "i", "m">>, <<"d", "i", "m">>),
        ident(<<"d">>, <<"d">>) >>
    [] c = "D" -> <<
        oper(<<"D", "e", "l", "t", "a">>, <<"\\u0394">>),
        ident(<<"D">>, <<"D">>) >>
    [] c = "e" -> <<
        ident(<<"e", "p", "s", "i", "l", "o", "n">>, <<"\\u03B5">>),
        ident(<<"e", "t", "a">>, <<"\\u03B7">>),
        unary(<<"e", "x", "p">>, <<"e", "x", "p">>),
        ident(<<"e">>, <<"e">>) >>
    [] c = "E" -> <<
        oper(<<"E", "E">>, <<"\\u2203">>),
        ident(<<"E">>, <<"E">>) >>
    [] c = "f" -> <<
        unarySurround(<<"f", "l", "o", "o", "r">>, <<"\\u230A">>, <<"\\u230B">>),
        oper(<<"f", "r", "o", "w", "n">>, <<"\\u2322">>),
        binaryEmbed(<<"f", "r", "a", "c">>, <<"mfrac">>),
        unaryCharTable(<<"f", "r">>, "frkTable"),
        ident(<<"f">>, <<"f">>) >>
    [] c = "F" -> <<
        ident(<<"F">>, <<"F">>) >>
    [] c = "g" -> <<
        ident(<<"g", "a", "m", "m", "a">>, <<"\\u03B3">>),
        oper(<<"g", "r", "a", "d">>, <<"\\u2207">>),
        unary(<<"g", "c", "d">>, <<"g", "c", "d">>),
        textOper(<<"g", "l", "b">>, <<"g", "l", "b">>),
        ident(<<"g">>, <<"g">>) >>
    [] c = "G" -> <<
        oper(<<"G", "a", "m", "m", "a">>, <<"\\u0393">>),
        ident(<<"G">>, <<"G">>) >>
    [] c = "h" -> <<
        oper(<<"h", "a", "r", "r">>, <<"\\u2194">>),
        oper(<<"h", "A", "r", "r">>, <<"\\u21D4">>),
        unaryUnderOver(<<"h", "a", "t">>, <<"mover">>, <<"^">>),
        ident(<<"h">>, <<"h">>) >>
    [] c = "H" -> <<
        ident(<<"H">>, <<"H">>) >>
    [] c = "i" -> <<
        ident(<<"i", "o", "t", "a">>, <<"\\u03B9">>),
        oper(<<"i", "n", "t">>, <<"\\u222B">>),
        oper(<<"i", "n">>, <<"\\u2208">>),
        textOper(<<"i", "f">>, <<"i", "f">>),
        binaryAttr(<<"i", "d">>, <<"mrow">>, <<"id">>),
        ident(<<"i">>, <<"i">>) >>
    [] c = "I" -> <<
        ident(<<"I">>, <<"I">>) >>
    [] c = "j" -> <<
        ident(<<"j">>, <<"j">>) >>
    [] c = "J" -> <<
        ident(<<"J">>, <<"J">>) >>
    [] c = "k" -> <<
        ident(<<"k", "a", "p", "p", "a">>, <<"\\u03BA">>),
        ident(<<"k">>, <<"k">>) >>
    [] c = "K" -> <<
        ident(<<"K">>, <<"K">>) >>
    [] c = "l" -> <<
        ident(<<"l", "a", "m", "b", "d", "a">>, <<"\\u03BB">>),
        oper(<<"l", "a", "r", "r">>, <<"\\u2190">>),
        oper(<<"l", "A", "r", "r">>, <<"\\u21D0">>),
        underOverOper(<<"l", "i", "m">>, <<"l", "i", "m">>),
        unary(<<"l", "o", "g">>, <<"l", "o", "g">>),
        unary(<<"l", "c", "m">>, <<"l", "c", "m">>),
        textOper(<<"l", "u", "b">>, <<"l", "u", "b">>),
        unary(<<"l", "n">>, <<"l", "n">>),
        ident(<<"l">>, <<"l">>) >>
    [] c = "L" -> <<
        oper(<<"L", "a", "m", "b", "d", "a">>, <<"\\u039B">>),
        underOverOper(<<"L", "i", "m">>, <<"L", "i", "m">>),
        unary(<<"L", "o", "g">>, <<"L", "o", "g">>),
        unary(<<"L", "n">>, <<"L", "n">>),
        ident(<<"L">>, <<"L">>) >>
    [] c = "m" -> <<
        underOverOper(<<"m", "i", "n">>, <<"m", "i", "n">>),
        underOverOper(<<"m", "a", "x">>, <<"m", "a", "x">>),
        textOper(<<"m", "o", "d">>, <<"m", "o", "d">>),
        ident(<<"m", "u">>, <<"\\u03BC">>),
        ident(<<"m">>, <<"m">>) >>
    [] c = "M" -> <<
        ident(<<"M">>, <<"M">>) >>
    [] c = "n" -> <<
        unarySurround(<<"n", "o", "r", "m">>, <<"\\u2225">>, <<"\\u2225">>),
        underOverOper(<<"n", "n", "n">>, <<"\\u22C2">>),
        oper(<<"n", "o", "t">>, <<"\\u00AC">>),
        oper(<<"n", "n">>, <<"\\u2229">>),
        ident(<<"n", "u">>, <<"\\u03BD">>),
        ident(<<"n">>, <<"n">>) >>
    [] c = "N" -> <<
        oper(<<"N", "N">>, <<"\\u2115">>),
        ident(<<"N">>, <<"N">>) >>
    [] c = "o" -> <<
        unaryUnderOver(<<"o", "v", "e", "r", "a", "r", "c">>, <<"mover">>, <<"\\u23DC">>),
        binaryEmbed(<<"o", "v", "e", "r", "s", "e", "t">>, <<"mover">>),
        unaryUnderOver(<<"o", "b", "r", "a", "c", "e">>, <<"mover">>, <<"\\u23DE">>),
        ident(<<"o", "m", "e", "g", "a">>, <<"\\u03C9">>),
        oper(<<"o", "i", "n", "t">>, <<"\\u222E">>),
        textOper(<<"o", "r">>, <<"o", "r">>),
        oper(<<"o", "+">>, <<"\\u2295">>),
        oper(<<"o", "x">>, <<"\\u2295">>),
        oper(<<"o", ".">>, <<"\\u2299">>),
        oper(<<"o", "o">>, <<"\\u221E">>),
        ident(<<"o">>, <<"o">>) >>
    [] c = "O" -> <<
        oper(<<"O", "m", "e", "g", "a">>, <<"\\u03A9">>),
        oper(<<"O", "/">>, <<"\\u2205">>),
        ident(<<"O">>, <<"O">>) >>
    [] c = "p" -> <<
        underOverOper(<<"p", "r", "o", "d">>, <<"\\u220F">>),
        ident(<<"p", "r", "o", "p">>, <<"\\u221D">>),
        ident(<<"p", "h", "i">>, <<"\\u03D5">>),
        ident(<<"p", "s", "i">>, <<"\\u03C8">>),
        ident(<<"p", "i">>, <<"\\u03C0">>),
        ident(<<"p">>, <<"p">>) >>
    [] c = "P" -> <<
        oper(<<"P", "h", "i">>, <<"\\u03A6">>),
        ident(<<"P", "s", "i">>, <<"\\u03A8">>),
        oper(<<"P", "i">>, <<"\\u03A0">>),
        ident(<<"P">>, <<"P">>) >>
    [] c = "q" -> <<
        oper(<<"q", "q", "u", "a", "d">>, <<"\\u00A0", "\\u00A0", "\\u00A0", "\\u00A0">>),
        oper(<<"q", "u", "a", "d">>, <<"\\u00A0", "\\u00A0">>),
        ident(<<"q">>, <<"q">>) >>
    [] c = "Q" -> <<
        oper(<<"Q", "Q">>, <<"\\u211A">>),
        ident(<<"Q">>, <<"Q">>) >>
    [] c = "r" -> <<
        oper(<<"r", "a", "r", "r">>, <<"\\u2192">>),
        oper(<<"r", "A", "r", "r">>, <<"\\u21D2">>),
        binaryEmbed(<<"r", "o", "o", "t">>, <<"mroot">>),
        ident(<<"r", "h", "o">>, <<"\\u03C1">>),
        ident(<<"r">>, <<"r">>) >>
    [] c = "R" -> <<
        oper(<<"R", "R">>, <<"\\u211D">>),
        ident(<<"R">>, <<"R">>) >>
    [] c = "s" -> <<
        binaryEmbed(<<"s", "t", "a", "c", "k", "r", "e", "l">>, <<"mover">>),
        oper(<<"s", "e", "t", "m", "i", "n", "u", "s">>, <<"\\">>),
        oper(<<"s", "q", "u", "a", "r", "e">>, <<"\\u25A1">>),
        ident(<<"s", "i", "g", "m", "a">>, <<"\\u03C3">>),
        underOverOper(<<"s", "u", "b", "e">>, <<"\\u2286">>),
        underOverOper(<<"s", "u", "p", "e">>, <<"\\u2287">>),
        unaryEmbed(<<"s", "q", "r", "t">>, <<"msqrt">>),
        unary(<<"s", "i", "n", "h">>, <<"s", "i", "n", "h">>),
        unary(<<"s", "e", "c", "h">>, <<"s", "e", "c", "h">>),
        underOverOper(<<"s", "u", "m">>, <<"\\u2211">>),
        underOverOper(<<"s", "u", "b">>, <<"\\u2282">>),
        underOverOper(<<"s", "u", "p">>, <<"\\u2283">>),
        unary(<<"s", "i", "n">>, <<"s", "i", "n">>),
        unary(<<"s", "e", "c">>, <<"s", "e", "c">>),
        unaryAttr(<<"s", "f">>, <<"mstyle">>, <<"style", "=", "\"", "font-family: sans-serif", "\"">>),
        ident(<<"s">>, <<"s">>) >>
    [] c = "S" -> <<
        oper(<<"S", "i", "g", "m", "a">>, <<"\\u03A3">>),
        unary(<<"S", "i", "n", "h">>, <<"S", "i", "n", "h">>),
        unary(<<"S", "i", "n">>, <<"S", "i", "n">>),
        unary(<<"S", "e", "c">>, <<"S", "e", "c">>),
        ident(<<"S">>, <<"S">>) >>
    [] c = "t" -> <<
        ident(<<"t", "h", "e", "t", "a">>, <<"\\u03B8">>),
        unaryUnderOver(<<"t", "i", "l", "d", "e">>, <<"mover">>, <<"~">>),
        unaryEmbed(<<"t", "e", "x", "t">>, <<"mtext">>),
        unary(<<"t", "a", "n", "h">>, <<"t", "a", "n", "h">>),
        unary(<<"t", "a", "n">>, <<"t", "a", "n">>),
        ident(<<"t", "a", "u">>, <<"\\u03C4">>),
        unaryAttr(<<"t", "t">>, <<"mstyle">>, <<"style", "=", "\"", "font-family: monospace", "\"">>),
        ident(<<"t">>, <<"t">>) >>
    [] c = "T" -> <<
        oper(<<"T", "h", "e", "t", "a">>, <<"\\u0398">>),
        unary(<<"T", "a", "n", "h">>, <<"T", "a", "n", "h">>),
        unary(<<"T", "a", "n">>, <<"T", "a", "n">>),
        oper(<<"T", "T">>, <<"\\u22A4">>),
        ident(<<"T">>, <<"T">>) >>
    [] c = "u" -> <<
        binaryEmbed(<<"u", "n", "d", "e", "r", "s", "e", "t">>, <<"munder">>),
        ident(<<"u", "p", "s", "i", "l", "o", "n">>, <<"\\u03C5">>),
        unaryUnderOver(<<"u", "b", "r", "a", "c", "e">>, <<"munder">>, <<"\\u23DF">>),
        oper(<<"u", "a", "r", "r">>, <<"\\u2191">>),
        underOverOper(<<"u", "u", "u">>, <<"\\u22C3">>),
        oper(<<"u", "u">>, <<"\\u222A">>),
        unaryUnderOver(<<"u", "l">>, <<"munder">>, <<"\\u0332">>),
        ident(<<"u">>, <<"u">>) >>
    [] c = "U" -> <<
        ident(<<"U">>, <<"U">>) >>
    [] c = "v" -> <<
        ident(<<"v", "a", "r", "e", "p", "s", "i", "l", "o", "n">>, <<"\\u025B">>),
        ident(<<"v", "a", "r", "t", "h", "e", "t", "a">>, <<"\\u03D1">>),
        ident(<<"v", "a", "r", "p", "h", "i">>, <<"\\u03C6">>),
        oper(<<"v", "d", "o", "t", "s">>, <<"\\u22EE">>),
        unaryUnderOver(<<"v", "e", "c">>, <<"mover">>, <<"\\u2192">>),
        underOverOper(<<"v", "v", "v">>, <<"\\u22C1">>),
        oper(<<"v", "v">>, <<"\\u2228">>),
        ident(<<"v">>, <<"v">>) >>
    [] c = "V" -> <<
        ident(<<"V">>, <<"V">>) >>
    [] c = "w" -> <<
        ident(<<"w">>, <<"w">>) >>
    [] c = "W" -> <<
        ident(<<"W">>, <<"W">>) >>
    [] c = "x" -> <<
        ident(<<"x", "i">>, <<"\\u03BE">>),
        oper(<<"x", "x">>, <<"\\u00D7">>),
        ident(<<"x">>, <<"x">>) >>
    [] c = "X" -> <<
        ident(<<"X", "i">>, <<"\\u039E">>),
        ident(<<"X">>, <<"X">>) >>
    [] c = "y" -> <<
        ident(<<"y">>, <<"y">>) >>
    [] c = "Y" -> <<
        ident(<<"Y">>, <<"Y">>) >>
    [] c = "z" -> <<
        ident(<<"z", "e", "t", "a">>, <<"\\u03B6">>),
        ident(<<"z">>, <<"z">>) >>
    [] c = "Z" -> <<
        oper(<<"Z", "Z">>, <<"\\u2124">>),
        ident(<<"Z">>, <<"Z">>) >>
    [] c = "-" -> <<
        oper(<<"_", "_", "|">>, <<"\\u230B">>),
        oper(<<"-", "<", "=">>, <<"\\u2AAF">>),
        oper(<<"-", ">", ">">>, <<"\\u21A0">>),
        oper(<<"-", ">">>, <<"\\u2192">>),
        oper(<<"-", "<">>, <<"\\u227A">>),
        oper(<<"-", ":">>, <<"\\u00F7">>),
        oper(<<"-", "=">>, <<"\\u2261">>),
        oper(<<"-", "+">>, <<"\\u2213">>),
        oper(<<"-">>, <<"\\u2212">>) >>
    [] c = "*" -> <<
        oper(<<"*", "*", "*">>, <<"\\u22C6">>),
        oper(<<"*", "*">>, <<"\\u2217">>),
        oper(<<"*">>, <<"\\u22C5">>) >>
    [] c = "+" -> <<
        oper(<<"+", "-">>, <<"\\u00B1">>),
        oper(<<"+">>, <<"+">>) >>
    [] c = "/" -> <<
        oper(<<"/", "_", "\\">>, <<"\\u25B3">>),
        oper(<<"/", "_">>, <<"\\u2220">>),
        oper(<<"/", "/">>, <<"/">>),
        oper(<<"/">>, <<>>) >>
    [] c = "\\" -> <<
        oper(<<"\\", "\\">>, <<"\\">>),
        oper(<<"\\">>, <<"\\u00A0">>) >>
    [] c = "|" -> <<
        oper(<<"|", ">", "<", "|">>, <<"\\u22C8">>),
        oper(<<"|", ">", "<">>, <<"\\u22C9">>),
        oper(<<"|", "-", ">">>, <<"\\u21A6">>),
        oper(<<"|", "-", "-">>, <<"\\u22A2">>),
        oper(<<"|", "=", "=">>, <<"\\u22A8">>),
        oper(<<"|", "_", "_">>, <<"\\u230A">>),
        leftMatrix(<<"|", "|", ":">>, <<"|">>),
        leftMatrix(<<"|", ":", ":">>, <<>>),
        oper(<<"|", "~">>, <<"\\u2308">>),
        leftBracket(<<"|", ":">>, <<"|">>),
        rightMatrix(<<"|", ")">>, <<")">>),
        rightMatrix(<<"|", "]">>, <<"]">>),
        rightMatrix(<<"|", "}">>, <<"}">>),
        oper(<<"|">>, <<"|">>) >>
    [] c = "<" -> <<
        oper(<<"<", "=", ">">>, <<"\\u21D4">>),
        oper(<<"<", "=">>, <<"\\u2264">>),
        oper(<<"<", "<">>, <<"\\u226A">>),
        oper(<<"<">>, <<"<">>) >>
    [] c = ">" -> <<
        oper(<<">", "-", ">", ">">>, <<"\\u2916">>),
        oper(<<">", "-", ">">>, <<"\\u21A3">>),
        oper(<<">", "<", "|">>, <<"\\u22CA">>),
        oper(<<">", "-", "=">>, <<"\\u2AB0">>),
        oper(<<">", "=">>, <<"\\u2265">>),
        oper(<<">", "-">>, <<"\\u227B">>),
        oper(<<">", ">">>, <<"\\u226B">>),
        oper(<<">">>, <<">">>) >>
    [] c = "=" -> <<
        oper(<<"=", ">">>, <<"\\u21D2">>),
        oper(<<"=">>, <<"=">>) >>
    [] c = "@" -> <<
        oper(<<"@">>, <<"\\u2218">>) >>
    [] c = "^" -> <<
        underOverOper(<<"^", "^", "^">>, <<"\\u22C0">>),
        oper(<<"^", "^">>, <<"\\u2227">>),
        oper(<<"^">>, <<>>) >>
    [] c = "~" -> <<
        oper(<<"~", "~">>, <<"\\u2248">>),
        oper(<<"~", "=">>, <<"\\u2245">>),
        oper(<<"~", "|">>, <<"\\u2309">>),
        oper(<<"~">>, <<"\\u223C">>) >>
    [] c = "!" -> <<
        oper(<<"!", "i", "n">>, <<"\\u2209">>),
        oper(<<"!", "=">>, <<"\\u2260">>),
        oper(<<"!">>, <<"!">>) >>
    [] c = ":" -> <<
        rightMatrix(<<":", "|", "|">>, <<"|">>),
        rightMatrix(<<":", ":", "|">>, <<>>),
        oper(<<":", "=">>, <<":", "=">>),
        rightBracket(<<":", ")">>, <<"\\u232A">>),
        rightBracket(<<":", "|">>, <<"|">>),
        rightBracket(<<":", "}">>, <<"}">>),
        oper(<<":", ".">>, <<"\\u2234">>),
        oper(<<":", "'">>, <<"\\u2235">>),
        oper(<<":">>, <<":">>) >>
    [] c = ";" -> <<
        matrixRowSep(<<";", ";">>),
        matrixCellSep(<<";">>) >>
    [] c = "." -> <<
        oper(<<".", ".", ".">>, <<".", ".", ".">>) >>
    [] c = "," -> <<
        oper(<<",">>, <<",">>) >>
    [] c = "_" -> <<
        oper(<<"_", "|", "_">>, <<"\\u22A5">>),
        oper(<<"_">>, <<>>) >>
    [] c = "'" -> <<
        oper(<<"'">>, <<"\\u2032">>) >>
    [] c = "(" -> <<
        leftMatrix(<<"(", "|">>, <<"(">>),
        leftBracket(<<"(", ":">>, <<"\\u2329">>),
        leftBracket(<<"(">>, <<"(">>) >>
    [] c = ")" -> <<
        rightBracket(<<")">>, <<")">>) >>
    [] c = "[" -> <<
        leftMatrix(<<"[", "|">>, <<"[">>),
        leftBracket(<<"[">>, <<"[">>) >>
    [] c = "]" -> <<
        rightBracket(<<"]">>, <<"]">>) >>
    [] c = "{" -> <<
        leftMatrix(<<"{", "|">>, <<"{">>),
        leftBracket(<<"{", ":">>, <<"{">>),
        leftBracket(<<"{">>, <<>>) >>
    [] c = "}" -> <<
        rightBracket(<<"}">>, <<>>) >>
    [] OTHER -> << >>

----------------------------------------------------------------------------
(* Scanner.  Its methods are functions of the text and the position; each  *)
(* returns the values the method returns and the position it leaves in     *)
(* Scanner.pos.                                                            *)

\* A loop that skips one whitespace character at most.
skipLoopOnce(inp, p) ==
    IF p < Len(inp) /\ isSpace(charAt(inp, p)) THEN p + 1 ELSE p

\* The loop of skipWhitespace: the value of this.pos when it ends.
RECURSIVE skipLoop(_, _)
skipLoop(inp, p) ==
    IF p < Len(inp) /\ isSpace(charAt(inp, p)) THEN skipLoop(inp, p + 1) ELSE p

\* A skipWhitespace that starts over from the first character when the
\* position is negative.
skipWhitespaceRestart(inp, p) ==
    LET q == skipLoop(inp, IF p < 0 THEN 0 ELSE p)
    IN  [pos |-> q, value |-> IF q < Len(inp) THEN q ELSE -1]

\* skipWhitespace: [pos: this.pos afterwards, value: the number returned].
skipWhitespace(inp, p) ==
    LET q == skipLoop(inp, p)
    IN  [pos |-> q, value |-> IF q < Len(inp) THEN q ELSE -1]

\* while (++pos < this.input.length && this.input[pos] != '"') {}
RECURSIVE quoteLoop(_, _)
quoteLoop(inp, p) ==
    IF p + 1 < Len(inp) /\ charAt(inp, p + 1) # "\""
    THEN quoteLoop(inp, p + 1)
    ELSE p + 1

\* while (pos < this.input.length && /[\d\.]/.test(this.input[pos])) ++pos
RECURSIVE numberLoop(_, _)
numberLoop(inp, p) ==
    IF p < Len(inp) /\ isDigitOrDot(charAt(inp, p))
    THEN numberLoop(inp, p + 1)
    ELSE p

\* A loop that returns the last candidate whose pattern is at position p.
RECURSIVE lastMatch(_, _, _, _)
lastMatch(syms, i, inp, p) ==
    LET found(later) ==
            IF later # NoSymbol THEN later
            ELSE IF slice(inp, p, p + Len(syms[i].input)) = syms[i].input
            THEN syms[i]
            ELSE NoSymbol
    IN  IF i > Len(syms) THEN NoSymbol
        ELSE found(lastMatch(syms, i + 1, inp, p))

\* The for loop over the candidates of one bucket: the first candidate
\* from i on whose pattern is at position p, or NoSymbol.
RECURSIVE firstMatch(_, _, _, _)
firstMatch(syms, i, inp, p) ==
    IF i > Len(syms) THEN NoSymbol
    ELSE IF slice(inp, p, p + Len(syms[i].input)) = syms[i].input
    THEN syms[i]
    ELSE firstMatch(syms, i + 1, inp, p)

\* A text branch that leaves the last character out of the text.
peekTextShort(inp, q, scan) ==
    LET e == quoteLoop(inp, q)
    IN  [sym |-> text(slice(inp, scan + 1, e - 1)), pos |-> e + 1,
         scan |-> scan]

\* The branch of peekSymbol for a text in double quotes that opens at q.
peekText(inp, q, scan) ==
    LET e == quoteLoop(inp, q)
    IN  [sym |-> text(slice(inp, scan + 1, e)), pos |-> e + 1, scan |-> scan]

\* The branch of peekSymbol for a number that starts at q.
peekNumber(inp, q, scan) ==
    LET e == numberLoop(inp, q)
    IN  [sym |-> number(slice(inp, scan, e)), pos |-> e, scan |-> scan]

\* The branch of peekSymbol for the candidate sym found in the table.
peekFound(sym, q, scan) ==
    [sym |-> sym, pos |-> q + Len(sym.input), scan |-> scan]

\* An error branch that skips the character after curr as well.
peekErrorSkipTwo(curr, q, scan) ==
    [sym |-> error(<<curr>>), pos |-> q + 2, scan |-> scan]

\* The last branch of peekSymbol: no symbol matches the character curr.
peekError(curr, q, scan) ==
    [sym |-> error(<<curr>>), pos |-> q + 1, scan |-> scan]

\* peekSymbol after pos = this.skipWhitespace() has returned q and left
\* scan in this.pos.
peekAt(inp, q, scan) ==
    LET curr == charAt(inp, q)
        lookup(sym) ==
            IF sym # NoSymbol THEN peekFound(sym, q, scan)
            ELSE peekError(curr, q, scan)
    IN  IF q < 0 THEN [sym |-> eof, pos |-> q, scan |-> scan]
        ELSE IF curr = "\"" THEN peekText(inp, q, scan)
        ELSE IF isDigit(curr) THEN peekNumber(inp, q, scan)
        ELSE lookup(firstMatch(symbols(curr), 1, inp, q))

\* peekSymbol: [sym, pos: the pair returned, scan: this.pos afterwards].
peekSymbol(inp, p) ==
    LET at(sk) == peekAt(inp, sk.value, sk.pos)
    IN  at(skipWhitespace(inp, p))

\* A nextSymbol that commits the position of the end of input as well.
nextSymbolAlways(inp, p) ==
    LET advance(pk) == [sym |-> pk.sym, scan |-> pk.pos]
    IN  advance(peekSymbol(inp, p))

\* nextSymbol: [sym: the symbol returned, scan: this.pos afterwards].
nextSymbol(inp, p) ==
    LET advance(pk) ==
            [sym |-> pk.sym,
             scan |-> IF pk.pos >= 0 THEN pk.pos ELSE pk.scan]
    IN  advance(peekSymbol(inp, p))

\* A charTable() that returns the table pushed first.
charTableFirst(tables) ==
    IF Len(tables) = 0 THEN Undefined ELSE tables[1]

\* charTable(): the topmost table, or undefined when the stack is empty.
charTable(tables) ==
    IF Len(tables) = 0 THEN Undefined ELSE tables[Len(tables)]

pushCharTable(tables, table) == Append(tables, table)

\* A pop that removes nothing.
popCharTableNone(tables) == tables

\* Array.pop: removes the last element; no effect on an empty array.
popCharTable(tables) ==
    IF Len(tables) = 0 THEN tables ELSE SubSeq(tables, 1, Len(tables) - 1)

----------------------------------------------------------------------------
(* Parsers of the symbols that read no further input.                      *)

leafParsers ==
    { "text", "number", "error", "eof", "ident", "oper", "textOper",
      "underOverOper", "leftBracket", "rightBracket", "rightMatrix",
      "matrixCellSep", "matrixRowSep" }

leafParser(sym, tables) ==
    CASE sym.parser = "text" ->
            Open("mtext") \o convertText(sym.input, charTable(tables))
                \o Close("mtext")
      [] sym.parser = "number" -> Open("mn") \o sym.input \o Close("mn")
      [] sym.parser = "error" ->
            Open("merror") \o Open("mtext") \o sym.a \o Close("mtext")
                \o Close("merror")
      [] sym.parser = "eof" -> <<>>
      [] sym.parser = "ident" ->
            Open("mi") \o convertText(sym.a, charTable(tables)) \o Close("mi")
      [] sym.parser \in {"oper", "underOverOper"} ->
            Open("mo") \o sym.a \o Close("mo")
      [] sym.parser = "textOper" ->
            Open("mrow")
                \o <<"<", "mspace", " ", "width", "=", "\"", "1ex", "\"", "/>">>
                \o Open("mtext") \o sym.a \o Close("mtext")
                \o <<"<", "mspace", " ", "width", "=", "\"", "1ex", "\"", "/>">>
                \o Close("mrow")
      [] sym.parser \in {"leftBracket", "rightBracket", "rightMatrix"} ->
            IF sym.a # <<>> THEN Open("mo") \o sym.a \o Close("mo") ELSE <<>>
      [] sym.parser \in {"matrixCellSep", "matrixRowSep"} -> <<>>

----------------------------------------------------------------------------
(* What the parsers with arguments return once the arguments are parsed.   *)

unaryParser(op, arg) == Open("mrow") \o op \o arg \o Close("mrow")

unaryEmbedParser(tag, arg) == Open(tag[1]) \o arg \o Close(tag[1])

unaryEmbedWithParser(tag, arg2, arg1) ==
    Open(tag[1]) \o arg1 \o arg2 \o Close(tag[1])

unarySurroundParser(left, right, arg) ==
    Open("mrow") \o left \o arg \o right \o Close("mrow")

\* `<${tag} ${attr}">${arg}</${tag}>`
unaryAttrParser(tag, attr, arg) ==
    <<"<", tag[1], " ">> \o attr \o <<"\"", ">">> \o arg \o Close(tag[1])

binaryEmbedParser(tag, arg1, arg2) ==
    Open(tag[1]) \o arg1 \o arg2 \o Close(tag[1])

\* `<${tag} ${attr}="${arg1}">${arg2}</${tag}>`
binaryAttrParser(tag, attr, arg1, arg2) ==
    <<"<", tag[1], " ", attr[1], "=", "\"">> \o arg1 \o <<"\"", ">">>
        \o arg2 \o Close(tag[1])

\* The result of a one-argument parser, by the parser of the symbol.
unaryResult(sym, arg) ==
    CASE sym.parser = "unaryParser" -> unaryParser(sym.a, arg)
      [] sym.parser = "unaryEmbedParser" -> unaryEmbedParser(sym.a, arg)
      [] sym.parser = "unaryEmbedWithParser" ->
            unaryEmbedWithParser(sym.a, sym.b, arg)
      [] sym.parser = "unarySurroundParser" ->
            unarySurroundParser(sym.a, sym.b, arg)
      [] sym.parser = "unaryAttrParser" -> unaryAttrParser(sym.a, sym.b, arg)

unaryParsers ==
    { "unaryParser", "unaryEmbedParser", "unaryEmbedWithParser",
      "unarySurroundParser", "unaryAttrParser" }

\* The return statement of iexprParser; an empty string is falsy, as an
\* undefined sub or sup is.
iexprResult(sym, res, sub, sup) ==
    IF sym.kind = "UnderOver"
    THEN IF sub # <<>> /\ sup # <<>>
         THEN Open("munderover") \o res \o sub \o sup \o Close("munderover")
         ELSE IF sub # <<>>
         THEN Open("munder") \o res \o sub \o Close("munder")
         ELSE IF sup # <<>>
         THEN Open("mover") \o res \o sup \o Close("mover")
         ELSE res
    ELSE IF sub # <<>> /\ sup # <<>>
         THEN Open("msubsup") \o res \o sub \o sup \o Close("msubsup")
         ELSE IF sub # <<>>
         THEN Open("msub") \o res \o sub \o Close("msub")
         ELSE IF sup # <<>>
         THEN Open("msup") \o res \o sup \o Close("msup")
         ELSE res

\* terminators without the end of input.
terminatorsNoEof ==
    { "RightBracket", "MatrixCellSep", "MatrixRowSep", "MatrixRightBracket" }

\* terminators without the right bracket.
terminatorsNoRightBracket ==
    { "Eof", "MatrixCellSep", "MatrixRowSep", "MatrixRightBracket" }

terminators ==
    { "Eof", "RightBracket", "MatrixCellSep", "MatrixRowSep",
      "MatrixRightBracket" }

\* `$<mfrac>${exp}${quot}</mfrac>`
fraction(exp, quot) ==
    <<"$">> \o Open("mfrac") \o exp \o quot \o Close("mfrac")

\* A math element whose display attribute is always block.
mathElementBlock(inl, exp) ==
    <<"<", "math", " ", "display", "=", "\"", "block", "\"", ">">>
        \o <<"<", "mstyle", " ", "displaystyle", "=", "\"", "true", "\"", ">">>
        \o exp \o Close("mstyle") \o Close("math")

\* The value of the parameter inline when the caller leaves it out.
defaultInline == FALSE

\* The string asciiToMathML returns for the fragment of exprParser.
mathElement(inl, exp) ==
    <<"<", "math", " ", "display", "=", "\"",
      IF inl THEN "inline" ELSE "block", "\"", ">">>
        \o <<"<", "mstyle", " ", "displaystyle", "=", "\"", "true", "\"", ">">>
        \o exp \o Close("mstyle") \o Close("math")

----------------------------------------------------------------------------
(* The machine.  S is the whole state as a record; every step of a         *)
(* procedure is a function from S to the next S, run from the frame on     *)
(* top of the stack: from the procedure's entry or from the return of a    *)
(* call to the next call or to its own return.                             *)

Frame(proc, pc, sym, res, exp) ==
    [proc |-> proc, pc |-> pc, sym |-> sym, res |-> res, exp |-> exp]

NoRet == [out |-> <<>>, sym |-> NoSymbol]

Scanner(inp, inl) ==
    [input |-> inp, inline |-> inl, pos |-> 0, charTables |-> <<>>,
     stack |-> <<Frame("asciiToMathML", "start", NoSymbol, <<>>, <<>>)>>,
     ret |-> NoRet, result |-> <<>>, status |-> "running"]

\* No heap: one call alone, no array another call could reach.
NoHeap == <<>>

\* No second call.
NoCall == [Scanner(<<>>, FALSE) EXCEPT !.stack = <<>>, !.status = "none"]

Top(S) == S.stack[Len(S.stack)]

At(S, proc, pc) ==
    /\ S.status = "running"
    /\ Len(S.stack) > 0
    /\ Top(S).proc = proc
    /\ Top(S).pc = pc

\* The running procedure moves to pc, keeps res and exp and calls callee.
Call(S, pc, sym, res, exp, callee, calleeSym) ==
    [S EXCEPT
        !.stack = Append(
            [S.stack EXCEPT
                ![Len(S.stack)] = Frame(Top(S).proc, pc, sym, res, exp)],
            Frame(callee, "start", calleeSym, <<>>, <<>>)),
        !.ret = NoRet]

\* The running procedure returns [out, sym] to its caller.
Return(S, out, sym) ==
    [S EXCEPT
        !.stack = SubSeq(@, 1, Len(@) - 1),
        !.ret = [out |-> out, sym |-> sym]]

\* exprParser, entry: res = "" and the first iexprParser call.
exprParserStart(S) ==
    Call(S, "iexp", NoSymbol, <<>>, <<>>, "iexprParser", NoSymbol)

\* exprParser, after exp = iexprParser(scanner).
exprParserIexp(S) ==
    LET f == Top(S)
        exp == S.ret.out
        peeked(pk) ==
            LET T == [S EXCEPT !.pos = pk.scan]
            IN  IF pk.sym.kind \in terminators
                THEN Return(T, f.res \o exp, NoSymbol)
                ELSE IF pk.sym.input = <<"/">>
                THEN Call([T EXCEPT !.pos = pk.pos], "quot", NoSymbol,
                          f.res, exp, "iexprParser", NoSymbol)
                ELSE Call(T, "iexp", NoSymbol, f.res \o exp, <<>>,
                          "iexprParser", NoSymbol)
    IN  peeked(peekSymbol(S.input, S.pos))

\* exprParser that looks for a further division after combining a fraction.
exprParserQuotAgain(S) ==
    LET f == Top(S)
        exp == fraction(f.exp, S.ret.out)
        peeked(pk) ==
            LET T == [S EXCEPT !.pos = pk.scan]
            IN  IF pk.sym.kind \in terminators
                THEN Return(T, f.res \o exp, NoSymbol)
                ELSE IF pk.sym.input = <<"/">>
                THEN Call([T EXCEPT !.pos = pk.pos], "quot", NoSymbol,
                          f.res, exp, "iexprParser", NoSymbol)
                ELSE Call(T, "iexp", NoSymbol, f.res \o exp, <<>>,
                          "iexprParser", NoSymbol)
    IN  peeked(peekSymbol(S.input, S.pos))

\* exprParser, after quot = iexprParser(scanner).
exprParserQuot(S) ==
    LET f == Top(S)
        exp == fraction(f.exp, S.ret.out)
        peeked(pk) ==
            LET T == [S EXCEPT !.pos = pk.scan]
            IN  IF pk.sym.kind \in terminators
                THEN Return(T, f.res \o exp, NoSymbol)
                ELSE Call(T, "iexp", NoSymbol, f.res \o exp, <<>>,
                          "iexprParser", NoSymbol)
    IN  peeked(peekSymbol(S.input, S.pos))

\* iexprParser, entry: the parseSExpr call.
iexprParserStart(S) ==
    Call(S, "base", NoSymbol, <<>>, <<>>, "parseSExpr", NoSymbol)

\* iexprParser, after [res, sym] = parseSExpr(scanner).
iexprParserBase(S) ==
    LET res == S.ret.out
        sym == S.ret.sym
        peeked(pk) ==
            LET T == [S EXCEPT !.pos = pk.scan]
            IN  IF pk.sym.input = <<"_">>
                THEN Call([T EXCEPT !.pos = pk.pos], "sub", sym, res, <<>>,
                          "parseSExpr", NoSymbol)
                ELSE IF pk.sym.input = <<"^">>
                THEN Call([T EXCEPT !.pos = pk.pos], "sup", sym, res, <<>>,
                          "parseSExpr", NoSymbol)
                ELSE Return(T, iexprResult(sym, res, <<>>, <<>>), NoSymbol)
    IN  peeked(peekSymbol(S.input, S.pos))

\* iexprParser, after sub = sexprParser(scanner).
iexprParserSub(S) ==
    LET f == Top(S)
        sub == S.ret.out
        peeked(pk) ==
            LET T == [S EXCEPT !.pos = pk.scan]
            IN  IF pk.sym.input = <<"^">>
                THEN Call([T EXCEPT !.pos = pk.pos], "sup", f.sym, f.res,
                          sub, "parseSExpr", NoSymbol)
                ELSE Return(T, iexprResult(f.sym, f.res, sub, <<>>),
                            NoSymbol)
    IN  peeked(peekSymbol(S.input, S.pos))

\* iexprParser, after sup = sexprParser(scanner).
iexprParserSup(S) ==
    LET f == Top(S)
    IN  Return(S, iexprResult(f.sym, f.res, f.exp, S.ret.out), NoSymbol)

\* A closing step that puts nothing in place of the right bracket.
parseSExprCloseSilent(S, sym, lbrac, exp) ==
    LET next(nx) ==
            Return([S EXCEPT !.pos = nx.scan],
                   Open("mrow") \o lbrac \o exp \o Close("mrow"), sym)
    IN  next(nextSymbol(S.input, S.pos))

\* parseSExpr, from sym2 = scanner.nextSymbol() to the return, for a left
\* bracket with fragment lbrac and inner expression exp.
parseSExprClose(S, sym, lbrac, exp) ==
    LET next(nx) ==
            LET T == [S EXCEPT !.pos = nx.scan]
                rbrac == leafParser(
                    IF nx.sym.kind = "RightBracket"
                    THEN nx.sym
                    ELSE error(<<"Missing closing paren">>), T.charTables)
            IN  Return(T, Open("mrow") \o lbrac \o exp \o rbrac
                            \o Close("mrow"), sym)
    IN  next(nextSymbol(S.input, S.pos))

\* parseSExpr for a left bracket sym, from lbrac = sym.parser(scanner) on;
\* T is the state after nextSymbol.
parseSExprOpen(T, sym) ==
    LET lbrac == leafParser(sym, T.charTables)
        peeked(pk) ==
            LET U == [T EXCEPT !.pos = pk.scan]
            IN  IF pk.sym.kind = "RightBracket"
                THEN parseSExprClose(U, sym, lbrac, <<>>)
                ELSE Call(U, "exp", sym, lbrac, <<>>, "exprParser",
                          NoSymbol)
    IN  peeked(peekSymbol(T.input, T.pos))

\* parseSExpr, entry.
parseSExprStart(S) ==
    LET next(nx) ==
            LET sym == nx.sym
                T == [S EXCEPT !.pos = nx.scan]
            IN  IF sym.kind = "LeftBracket"
                THEN parseSExprOpen(T, sym)
                ELSE IF sym.parser \in leafParsers
                THEN Return(T, leafParser(sym, T.charTables), sym)
                ELSE Call(T, "parser", sym, <<>>, <<>>,
                          IF sym.parser \in unaryParsers
                          THEN "unary" ELSE sym.parser,
                          sym)
    IN  next(nextSymbol(S.input, S.pos))

\* parseSExpr, after exp = exprParser(scanner).
parseSExprExp(S) ==
    LET f == Top(S)
    IN  parseSExprClose(S, f.sym, f.res, S.ret.out)

\* parseSExpr, after sym.parser(scanner) for a parser that reads arguments.
parseSExprParser(S) == Return(S, S.ret.out, Top(S).sym)

\* A one-argument parser, entry: arg = sexprParser(scanner).
unaryStart(S) ==
    Call(S, "arg", Top(S).sym, <<>>, <<>>, "parseSExpr", NoSymbol)

\* A one-argument parser, after its argument.
unaryArg(S) == Return(S, unaryResult(Top(S).sym, S.ret.out), NoSymbol)

\* unaryCharTableParser, entry: push the table, then the argument.
unaryCharTableParserStart(S) ==
    Call([S EXCEPT !.charTables = pushCharTable(@, Top(S).sym.a[1])],
         "arg", Top(S).sym, <<>>, <<>>, "parseSExpr", NoSymbol)

\* unaryCharTableParser, after its argument: pop the table.
unaryCharTableParserArg(S) ==
    Return([S EXCEPT !.charTables = popCharTable(@)], S.ret.out, NoSymbol)

\* binaryEmbedParser, entry.
binaryEmbedParserStart(S) ==
    Call(S, "arg1", Top(S).sym, <<>>, <<>>, "parseSExpr", NoSymbol)

\* binaryEmbedParser, after arg1.
binaryEmbedParserArg1(S) ==
    Call(S, "arg2", Top(S).sym, S.ret.out, <<>>, "parseSExpr", NoSymbol)

\* binaryEmbedParser, after arg2.
binaryEmbedParserArg2(S) ==
    LET f == Top(S)
    IN  Return(S, binaryEmbedParser(f.sym.a, f.res, S.ret.out), NoSymbol)

\* binaryAttrParser, entry: arg1 = scanner.nextSymbol().input.
binaryAttrParserStart(S) ==
    LET next(nx) ==
            Call([S EXCEPT !.pos = nx.scan], "arg2", Top(S).sym,
                 nx.sym.input, <<>>, "parseSExpr", NoSymbol)
    IN  next(nextSymbol(S.input, S.pos))

\* binaryAttrParser, after arg2.
binaryAttrParserArg2(S) ==
    LET f == Top(S)
    IN  Return(S, binaryAttrParser(f.sym.a, f.sym.b, f.res, S.ret.out),
               NoSymbol)

\* A turn that wraps the table only if both brackets render.
matrixParserLoopBoth(S, res) ==
    LET f == Top(S)
        leftBr == f.sym.a
        peeked(pk) ==
            LET T == [S EXCEPT !.pos = pk.scan]
                U == [T EXCEPT !.pos = pk.pos]
                rightBr == leafParser(pk.sym, U.charTables)
            IN  IF pk.sym.kind \in {"Eof", "MatrixRightBracket"}
                THEN Return(U,
                        IF leftBr # <<>> /\ rightBr # <<>>
                        THEN Open("mrow") \o leftBr \o Open("mtable") \o res
                                \o Close("mtable") \o rightBr
                                \o Close("mrow")
                        ELSE Open("mtable") \o res \o Close("mtable"),
                        NoSymbol)
                ELSE Call(T, "row", f.sym, res, <<>>, "matrixRowParser",
                          NoSymbol)
    IN  peeked(peekSymbol(S.input, S.pos))

\* matrixParser, one turn of its loop with the rows res parsed so far.
matrixParserLoop(S, res) ==
    LET f == Top(S)
        leftBr == f.sym.a
        peeked(pk) ==
            LET T == [S EXCEPT !.pos = pk.scan]
                U == [T EXCEPT !.pos = pk.pos]
                rightBr == leafParser(pk.sym, U.charTables)
            IN  IF pk.sym.kind \in {"Eof", "MatrixRightBracket"}
                THEN Return(U,
                        IF leftBr # <<>> \/ rightBr # <<>>
                        THEN Open("mrow") \o leftBr \o Open("mtable") \o res
                                \o Close("mtable") \o rightBr
                                \o Close("mrow")
                        ELSE Open("mtable") \o res \o Close("mtable"),
                        NoSymbol)
                ELSE Call(T, "row", f.sym, res, <<>>, "matrixRowParser",
                          NoSymbol)
    IN  peeked(peekSymbol(S.input, S.pos))

\* matrixParser, entry.
matrixParserStart(S) == matrixParserLoop(S, <<>>)

\* matrixParser, after row = matrixRowParser(scanner).
matrixParserRow(S) ==
    matrixParserLoop(S,
        Top(S).res \o Open("mtr") \o S.ret.out \o Close("mtr"))

\* matrixRowParser, one turn of its loop with the cells res parsed so far.
matrixRowParserLoop(S, res) ==
    LET peeked(pk) ==
            LET T == [S EXCEPT !.pos = pk.scan]
            IN  IF pk.sym.kind \in {"Eof", "MatrixRowSep"}
                THEN Return([T EXCEPT !.pos = pk.pos], res, NoSymbol)
                ELSE IF pk.sym.kind = "MatrixRightBracket"
                THEN Return(T, res, NoSymbol)
                ELSE Call(T, "cell", NoSymbol, res, <<>>, "exprParser",
                          NoSymbol)
    IN  peeked(peekSymbol(S.input, S.pos))

\* matrixRowParser, entry.
matrixRowParserStart(S) == matrixRowParserLoop(S, <<>>)

\* A step after a cell that keeps the new cell only.
matrixRowParserCellLast(S) ==
    matrixRowParserLoop(S, Open("mtd") \o S.ret.out \o Close("mtd"))

\* matrixRowParser, after cell = exprParser(scanner).
matrixRowParserCell(S) ==
    matrixRowParserLoop(S,
        Top(S).res \o Open("mtd") \o S.ret.out \o Close("mtd"))

\* asciiToMathML, entry: the scanner is built; exprParser(scanner).
asciiToMathMLStart(S) ==
    Call(S, "expr", NoSymbol, <<>>, <<>>, "exprParser", NoSymbol)

\* asciiToMathML, after exprParser: the string returned.
asciiToMathMLExpr(S) ==
    [S EXCEPT
        !.stack = <<>>,
        !.result = mathElement(S.inline, S.ret.out),
        !.status = "done"]

\* The step the machine takes from S.
Step(S) ==
    CASE At(S, "asciiToMathML", "start") -> asciiToMathMLStart(S)
      [] At(S, "asciiToMathML", "expr") -> asciiToMathMLExpr(S)
      [] At(S, "exprParser", "start") -> exprParserStart(S)
      [] At(S, "exprParser", "iexp") -> exprParserIexp(S)
      [] At(S, "exprParser", "quot") -> exprParserQuot(S)
      [] At(S, "iexprParser", "start") -> iexprParserStart(S)
      [] At(S, "iexprParser", "base") -> iexprParserBase(S)
      [] At(S, "iexprParser", "sub") -> iexprParserSub(S)
      [] At(S, "iexprParser", "sup") -> iexprParserSup(S)
      [] At(S, "parseSExpr", "start") -> parseSExprStart(S)
      [] At(S, "parseSExpr", "exp") -> parseSExprExp(S)
      [] At(S, "parseSExpr", "parser") -> parseSExprParser(S)
      [] At(S, "unary", "start") -> unaryStart(S)
      [] At(S, "unary", "arg") -> unaryArg(S)
      [] At(S, "unaryCharTableParser", "start") -> unaryCharTableParserStart(S)
      [] At(S, "unaryCharTableParser", "arg") -> unaryCharTableParserArg(S)
      [] At(S, "binaryEmbedParser", "start") -> binaryEmbedParserStart(S)
      [] At(S, "binaryEmbedParser", "arg1") -> binaryEmbedParserArg1(S)
      [] At(S, "binaryEmbedParser", "arg2") -> binaryEmbedParserArg2(S)
      [] At(S, "binaryAttrParser", "start") -> binaryAttrParserStart(S)
      [] At(S, "binaryAttrParser", "arg2") -> binaryAttrParserArg2(S)
      [] At(S, "matrixParser", "start") -> matrixParserStart(S)
      [] At(S, "matrixParser", "row") -> matrixParserRow(S)
      [] At(S, "matrixRowParser", "start") -> matrixRowParserStart(S)
      [] At(S, "matrixRowParser", "cell") -> matrixRowParserCell(S)

\* The state in which asciiToMathML has returned, reached from S.
RECURSIVE Run(_)
Run(S) == IF S.status = "done" THEN S ELSE Run(Step(S))

\* asciiToMathML(inp, inl): the string returned.
asciiToMathML(inp, inl) == Run(Scanner(inp, inl)).result

\* The fragment exprParser returns for the whole of inp.
exprParser(inp) == Run(Scanner(inp, FALSE)).ret.out

----------------------------------------------------------------------------
(* Inputs.                                                                 *)

\* The equations of the documentation: the scenarios of the README and of
\* the comments of the source.
Examples ==
    { <<"a", "^", "2", "+", "b", "^", "2", "=", "c", "^", "2">>,
      <<"s", "q", "r", "t", " ", "2">>,
      <<"1", "/", "2">>,
      <<"(", "a">>,
      <<"[", "|", " ", "a", ";", " ", "b", ";", ";", " ", "c", ";", " ", "d", " ", "|", "]">>,
      <<"#">>,
      <<"s", "u", "m", "_", "{", "i", "=", "1", "}", "^", "n", " ", "i", "^", "3", "=", "(", "{", "n", "(", "n", "+", "1", ")", "}", "/", "2", ")", "^", "2">>,
      <<"b", "b", "b", "\"", "A", "a", "B", "b", "C", "c", "\"">>,
      <<"c", "o", "l", "o", "r", " ", "\"", "r", "e", "d", "\"", " ", "x">>,
      <<"f", "r", "a", "c", " ", "a", " ", "b">> }

\* Every concatenation of at most n of the strings in T.
RECURSIVE Words(_, _)
Words(T, n) ==
    IF n = 0 THEN {<<>>}
    ELSE LET W == Words(T, n - 1) IN W \cup {w \o t : w \in W, t \in T}

Tokens ==
    { <<"(">>, <<")">>, <<"a">>, <<"/">>, <<"^">>, <<" ">>, <<"\"">>,
      <<"1">>, <<".">>, <<";">>, <<"b", "b">>, <<"s", "q", "r", "t">> }

\* Whitespace characters as inputs of their own.
Blanks == { <<" ">>, <<"\n">>, <<"\t">>, <<" ">>, <<"\\u2028">> }

Inputs ==
    Examples \cup Words(Tokens, MaxTokens) \cup Words(Blanks, MaxTokens)

----------------------------------------------------------------------------
(* The state machine.                                                      *)

St ==
    [input |-> input, inline |-> inline, pos |-> pos,
     charTables |-> charTables, stack |-> stack, ret |-> ret,
     result |-> result, status |-> status]

Set(T) ==
    /\ input' = T.input
    /\ inline' = T.inline
    /\ pos' = T.pos
    /\ charTables' = T.charTables
    /\ stack' = T.stack
    /\ ret' = T.ret
    /\ result' = T.result
    /\ status' = T.status
    /\ other' = other
    /\ heap' = heap

\* new Scanner(input, symbols) for an input of the set I.
InitOn(I, B) ==
    \E inp \in I, inl \in B :
        LET S == Scanner(inp, inl)
        IN  /\ input = S.input
            /\ inline = S.inline
            /\ pos = S.pos
            /\ charTables = S.charTables
            /\ stack = S.stack
            /\ ret = S.ret
            /\ result = S.result
            /\ status = S.status
            /\ other = NoCall
            /\ heap = NoHeap

Init == InitOn(Inputs, BOOLEAN)

AsciiToMathMLStart ==
    At(St, "asciiToMathML", "start") /\ \E T \in {asciiToMathMLStart(St)} : Set(T)
AsciiToMathMLExpr ==
    At(St, "asciiToMathML", "expr") /\ \E T \in {asciiToMathMLExpr(St)} : Set(T)
ExprParserStart ==
    At(St, "exprParser", "start") /\ \E T \in {exprParserStart(St)} : Set(T)
ExprParserIexp ==
    At(St, "exprParser", "iexp") /\ \E T \in {exprParserIexp(St)} : Set(T)
ExprParserQuot ==
    At(St, "exprParser", "quot") /\ \E T \in {exprParserQuot(St)} : Set(T)
IexprParserStart ==
    At(St, "iexprParser", "start") /\ \E T \in {iexprParserStart(St)} : Set(T)
IexprParserBase ==
    At(St, "iexprParser", "base") /\ \E T \in {iexprParserBase(St)} : Set(T)
IexprParserSub ==
    At(St, "iexprParser", "sub") /\ \E T \in {iexprParserSub(St)} : Set(T)
IexprParserSup ==
    At(St, "iexprParser", "sup") /\ \E T \in {iexprParserSup(St)} : Set(T)
ParseSExprStart ==
    At(St, "parseSExpr", "start") /\ \E T \in {parseSExprStart(St)} : Set(T)
ParseSExprExp ==
    At(St, "parseSExpr", "exp") /\ \E T \in {parseSExprExp(St)} : Set(T)
ParseSExprParser ==
    At(St, "parseSExpr", "parser") /\ \E T \in {parseSExprParser(St)} : Set(T)
UnaryStart ==
    At(St, "unary", "start") /\ \E T \in {unaryStart(St)} : Set(T)
UnaryArg ==
    At(St, "unary", "arg") /\ \E T \in {unaryArg(St)} : Set(T)
UnaryCharTableParserStart ==
    At(St, "unaryCharTableParser", "start")
        /\ \E T \in {unaryCharTableParserStart(St)} : Set(T)
UnaryCharTableParserArg ==
    At(St, "unaryCharTableParser", "arg") /\ \E T \in {unaryCharTableParserArg(St)} : Set(T)
BinaryEmbedParserStart ==
    At(St, "binaryEmbedParser", "start") /\ \E T \in {binaryEmbedParserStart(St)} : Set(T)
BinaryEmbedParserArg1 ==
    At(St, "binaryEmbedParser", "arg1") /\ \E T \in {binaryEmbedParserArg1(St)} : Set(T)
BinaryEmbedParserArg2 ==
    At(St, "binaryEmbedParser", "arg2") /\ \E T \in {binaryEmbedParserArg2(St)} : Set(T)
BinaryAttrParserStart ==
    At(St, "binaryAttrParser", "start") /\ \E T \in {binaryAttrParserStart(St)} : Set(T)
BinaryAttrParserArg2 ==
    At(St, "binaryAttrParser", "arg2") /\ \E T \in {binaryAttrParserArg2(St)} : Set(T)
MatrixParserStart ==
    At(St, "matrixParser", "start") /\ \E T \in {matrixParserStart(St)} : Set(T)
MatrixParserRow ==
    At(St, "matrixParser", "row") /\ \E T \in {matrixParserRow(St)} : Set(T)
MatrixRowParserStart ==
    At(St, "matrixRowParser", "start") /\ \E T \in {matrixRowParserStart(St)} : Set(T)
MatrixRowParserCell ==
    At(St, "matrixRowParser", "cell") /\ \E T \in {matrixRowParserCell(St)} : Set(T)

Next ==
    \/ AsciiToMathMLStart
    \/ AsciiToMathMLExpr
    \/ ExprParserStart
    \/ ExprParserIexp
    \/ ExprParserQuot
    \/ IexprParserStart
    \/ IexprParserBase
    \/ IexprParserSub
    \/ IexprParserSup
    \/ ParseSExprStart
    \/ ParseSExprExp
    \/ ParseSExprParser
    \/ UnaryStart
    \/ UnaryArg
    \/ UnaryCharTableParserStart
    \/ UnaryCharTableParserArg
    \/ BinaryEmbedParserStart
    \/ BinaryEmbedParserArg1
    \/ BinaryEmbedParserArg2
    \/ BinaryAttrParserStart
    \/ BinaryAttrParserArg2
    \/ MatrixParserStart
    \/ MatrixParserRow
    \/ MatrixRowParserStart
    \/ MatrixRowParserCell

Spec == Init /\ [][Next]_vars

\* The objects created when the module is loaded, by name: the symbol table
\* and the three character tables.  Every Scanner holds the symbol table by
\* reference, and the font entries of the symbol table hold the character
\* tables by reference.
ModuleHeap ==
    [ a \in {"symbols", "calTable", "frkTable", "bbbTable"} |->
        IF a = "symbols" THEN [c \in symbolKeys |-> symbols(c)]
        ELSE charTableOf(a) ]

\* The addresses an array created by a call can get, in the order they are
\* handed out.
ArrayAddresses == <<"charTables1", "charTables2">>

\* An allocation that hands out the same array to every Scanner, as a field
\* of the class would be.
staticArray(H) == ArrayAddresses[1]

\* The address of a new array in the heap H: one that no object has.
newArray(H) ==
    ArrayAddresses[
        CHOOSE i \in DOMAIN ArrayAddresses :
            /\ ArrayAddresses[i] \notin DOMAIN H
            /\ \A j \in 1..(i - 1) : ArrayAddresses[j] \in DOMAIN H ]

\* new Scanner(input, symbols) in the heap H: the field charTables of the
\* new object is a reference to the array its initializer creates, empty.
newScanner(H, inp, inl) ==
    LET a == newArray(H)
    IN  [scanner |-> [Scanner(inp, inl) EXCEPT !.charTables = a],
         heap |-> (a :> <<>>) @@ H]

\* One step of the call whose Scanner is S in the heap H: the step reads
\* and writes the array this.charTables refers to and writes nothing else.
scannerStep(S, H) ==
    LET T == Step([S EXCEPT !.charTables = H[S.charTables]])
    IN  [scanner |-> [T EXCEPT !.charTables = S.charTables],
         heap |-> [H EXCEPT ![S.charTables] = T.charTables]]

\* The array of the Scanner of the first call.
thisArray == newScanner(ModuleHeap, <<>>, FALSE).scanner.charTables

\* A step of the first call.
ThisStep ==
    /\ status = "running"
    /\ \E R \in {scannerStep([St EXCEPT !.charTables = thisArray], heap)} :
            /\ input' = R.scanner.input
            /\ inline' = R.scanner.inline
            /\ pos' = R.scanner.pos
            /\ charTables' = R.heap[thisArray]
            /\ stack' = R.scanner.stack
            /\ ret' = R.scanner.ret
            /\ result' = R.scanner.result
            /\ status' = R.scanner.status
            /\ heap' = R.heap
    /\ other' = other

\* The second call starts, with the arguments of the first or with another
\* input: let scanner = new Scanner(input, symbols).
OtherStart ==
    /\ other = NoCall
    /\ \E inp2 \in {input, <<"a">>}, inl2 \in BOOLEAN :
            \E R \in {newScanner(heap, inp2, inl2)} :
                /\ other' = R.scanner
                /\ heap' = R.heap
    /\ UNCHANGED <<input, inline, pos, charTables, stack, ret, result, status>>

\* A step of the second call.
OtherStep ==
    /\ other.status = "running"
    /\ \E R \in {scannerStep(other, heap)} :
            /\ other' = R.scanner
            /\ heap' = R.heap
    /\ UNCHANGED <<input, inline, pos, charTables, stack, ret, result, status>>

\* The module is loaded and the first call has built its Scanner; the
\* second call can start at any time, before, during or after the first.
InitCalls ==
    \E inp \in Examples, inl \in BOOLEAN :
        \E R \in {newScanner(ModuleHeap, inp, inl)} :
            /\ input = R.scanner.input
            /\ inline = R.scanner.inline
            /\ pos = R.scanner.pos
            /\ charTables = R.heap[R.scanner.charTables]
            /\ stack = R.scanner.stack
            /\ ret = R.scanner.ret
            /\ result = R.scanner.result
            /\ status = R.scanner.status
            /\ other = NoCall
            /\ heap = R.heap

NextCalls == ThisStep \/ OtherStart \/ OtherStep

CallsSpec == InitCalls /\ [][NextCalls]_vars

\* Every entry of the symbol table.
symbolEntries ==
    UNION { { symbols(c)[i] : i \in DOMAIN symbols(c) } : c \in symbolKeys }

\* The pattern of every entry as an input of its own.
Patterns == { sym.input : sym \in symbolEntries }

PatternSpec == InitOn(Examples \cup Patterns, BOOLEAN) /\ [][Next]_vars

\* The font commands of the symbol table.
FontCommands == { <<"b", "b", "b">>, <<"c", "c">>, <<"f", "r">> }

\* Font commands with identifiers, a text, an unknown character and
\* brackets.
FontTokens ==
    FontCommands \cup { <<"A">>, <<"\"", "A", "\"">>, <<"#">>, <<"(">>, <<")">> }

\* An identifier and a text literal.
FontLeaves == { <<"A">>, <<"\"", "a", "\"">> }

\* A font command inside the bracketed argument of another, between
\* leaves, and a leaf after the whole.
nestedInput(outer, inner, leaf) ==
    outer \o <<"(">> \o leaf \o inner \o leaf \o <<" ">> \o leaf
        \o <<")">> \o leaf

NestedFonts ==
    { nestedInput(outer, inner, leaf) :
        outer \in FontCommands, inner \in FontCommands, leaf \in FontLeaves }

FontInputs == Examples \cup NestedFonts \cup Words(FontTokens, MaxTokens)

FontSpec == InitOn(FontInputs, BOOLEAN) /\ [][Next]_vars

\* A base of kind Default and one of kind UnderOver.
ScriptBases == { <<"a">>, <<"s", "u", "m">> }

\* What follows a base: no subscript, a subscript, or the sign alone at the
\* end of the input; the same for the superscript.
Subscripts == { <<>>, <<"_", "b">>, <<"_">> }
Superscripts == { <<>>, <<"^", "c">>, <<"^">> }

\* A base with its scripts; a sign without operand stands at the end.
Scripts ==
    { sc \in [base : ScriptBases, sub : Subscripts, sup : Superscripts] :
        sc.sub = <<"_">> => sc.sup = <<>> }

scriptInput(sc) == sc.base \o sc.sub \o sc.sup

\* The contents of a quoted text: the three signs and a letter.
QuotedContents == { "_", "^", "/", "t" }

\* A quoted text between two identifiers.
quotedInput(c) == <<"a", "\"", c, "\"", "b">>

\* Characters that mean something in markup.
MarkupChars == { "<", "&" }

\* Such a character as the content of a text, as an unrecognized
\* character, and as the attribute value read by color.
markupText(c) == <<"\"", c, "\"">>
markupUnknown(c) == <<"#", c>>
markupAttr(c) == <<"c", "o", "l", "o", "r", " ", "\"", c, "\"", " ", "x">>

\* Operators and commands that take operands, with an operand.
ArityTokens ==
    { <<"a">>, <<"/">>, <<"_">>, <<"^">>, <<"f", "r", "a", "c">>,
      <<"r", "o", "o", "t">>, <<"s", "q", "r", "t">>, <<"h", "a", "t">>,
      <<"s", "u", "m">> }

\* Inputs at the edges of the grammar.
EdgeInputs ==
    Examples \cup { scriptInput(sc) : sc \in Scripts }
        \cup { quotedInput(c) : c \in QuotedContents }
        \cup UNION { {markupText(c), markupUnknown(c), markupAttr(c)} :
                        c \in MarkupChars }
        \cup Words(ArityTokens, MaxTokens)

EdgeSpec == InitOn(EdgeInputs, BOOLEAN) /\ [][Next]_vars

\* Runs of terms and division signs without brackets.
DivisionTokens == { <<"a">>, <<"/">>, <<" ">> }

DivisionInputs == Examples \cup Words(DivisionTokens, MaxTerms)

DivisionSpec == InitOn(DivisionInputs, BOOLEAN) /\ [][Next]_vars

\* The left brackets that are not matrix brackets, with what they show.
LeftBrackets ==
    { [left |-> <<"(">>, lout |-> <<"(">>],
      [left |-> <<"[">>, lout |-> <<"[">>],
      [left |-> <<"(", ":">>, lout |-> <<"\\u2329">>],
      [left |-> <<"|", ":">>, lout |-> <<"|">>],
      [left |-> <<"{", ":">>, lout |-> <<"{">>],
      [left |-> <<"{">>, lout |-> <<>>] }

\* The right brackets that are not matrix brackets, with what they show.
RightBrackets ==
    { [right |-> <<")">>, rout |-> <<")">>],
      [right |-> <<"]">>, rout |-> <<"]">>],
      [right |-> <<":", ")">>, rout |-> <<"\\u232A">>],
      [right |-> <<":", "|">>, rout |-> <<"|">>],
      [right |-> <<":", "}">>, rout |-> <<"}">>],
      [right |-> <<"}">>, rout |-> <<>>] }

\* What stands before a group: nothing, a command, a division, a script.
GroupPrefixes ==
    { <<>>, <<"s", "q", "r", "t">>, <<"a", "/">>, <<"a", "^">>, <<"b", "b">> }

\* A group of one identifier between any left and any right bracket.
Groups == [ pre : GroupPrefixes, l : LeftBrackets, r : RightBrackets ]

groupInput(g) == g.pre \o g.l.left \o <<"x">> \o g.r.right

BracketInputs == Examples \cup { groupInput(g) : g \in Groups }

BracketSpec == InitOn(BracketInputs, BOOLEAN) /\ [][Next]_vars

\* Inputs that drive the loops of exprParser, matrixParser and
\* matrixRowParser and the recursion through brackets, scripts, fractions
\* and command arguments.
LoopTokens ==
    { <<"a">>, <<"(">>, <<")">>, <<"[", "|">>, <<"|", "]">>, <<";">>,
      <<";", ";">>, <<"/">>, <<"^">>, <<"s", "q", "r", "t">>,
      <<"f", "r", "a", "c">> }

LoopInputs == Examples \cup Words(LoopTokens, MaxTokens)

\* Every state in which asciiToMathML has not returned has a step, and the
\* step changes the state.
Progresses == status = "running" => Step(St) # St

\* asciiToMathML is one synchronous call: a step that can be taken is
\* taken.  This is WF_vars(Next) with ENABLED <<Next>>_vars written out as
\* status = "running", which Progresses establishes.
FairSpec ==
    /\ InitOn(LoopInputs, BOOLEAN)
    /\ [][Next]_vars
    /\ ([]<>(status = "done") \/ []<><<Next>>_vars)

----------------------------------------------------------------------------
(* Matrices: rows of cells between a pair of matrix brackets.              *)

\* Complete expressions for the cells: every operator and command has its
\* operands and every bracket its partner.
CellExprs ==
    << <<"a">>,
       <<"1", "/", "2">>,
       <<"x", "^", "2">>,
       <<"s", "q", "r", "t", " ", "b">>,
       <<"(", "c", ")">>,
       <<"2", "x">>,
       <<"\"", "t", "\"">>,
       <<"f", "r", "a", "c", " ", "a", " ", "b">> >>

\* Pairs of matrix brackets of the symbol table, with what they render.
MatrixBrackets ==
    { [left |-> <<"[", "|">>, right |-> <<"|", "]">>,
       lout |-> <<"[">>, rout |-> <<"]">>],
      [left |-> <<"{", "|">>, right |-> <<":", ":", "|">>,
       lout |-> <<"{">>, rout |-> <<>>],
      [left |-> <<"|", ":", ":">>, right |-> <<":", ":", "|">>,
       lout |-> <<>>, rout |-> <<>>] }

\* A matrix: cells[i] is the number of cells of row i, k selects the cell
\* expressions, sp is the whitespace written around the separators.
Matrices ==
    [ cells : UNION { [1..r -> 1..MaxCols] : r \in 1..MaxRows },
      k : 0..(Len(CellExprs) - 1),
      br : MatrixBrackets,
      sp : {<<>>, <<" ">>} ]

\* The expression of cell j of row i of the matrix m.
cellAt(m, i, j) ==
    CellExprs[(((i - 1) * MaxCols + (j - 1) + m.k) % Len(CellExprs)) + 1]

\* The input of the cells j.. of row i of m, separated by ";".
RECURSIVE rowInput(_, _, _)
rowInput(m, i, j) ==
    IF j = m.cells[i] THEN cellAt(m, i, j)
    ELSE cellAt(m, i, j) \o <<";">> \o m.sp \o rowInput(m, i, j + 1)

\* The input of the rows i.. of m, separated by ";;".
RECURSIVE rowsInput(_, _)
rowsInput(m, i) ==
    IF i = Len(m.cells) THEN rowInput(m, i, 1)
    ELSE rowInput(m, i, 1) \o <<";", ";">> \o m.sp \o rowsInput(m, i + 1)

\* The input that writes the matrix m.
matrixInput(m) ==
    m.br.left \o m.sp \o rowsInput(m, 1) \o m.sp \o m.br.right

\* One cell element for each of the cells j.. of row i of m, in order.
RECURSIVE rowOutput(_, _, _)
rowOutput(m, i, j) ==
    IF j > m.cells[i] THEN <<>>
    ELSE Open("mtd") \o exprParser(cellAt(m, i, j)) \o Close("mtd")
            \o rowOutput(m, i, j + 1)

\* One row element for each of the rows i.. of m, in order.
RECURSIVE rowsOutput(_, _)
rowsOutput(m, i) ==
    IF i > Len(m.cells) THEN <<>>
    ELSE Open("mtr") \o rowOutput(m, i, 1) \o Close("mtr")
            \o rowsOutput(m, i + 1)

\* The bracket symbol out as an operator element, nothing if invisible.
bracketOutput(out) ==
    IF out = <<>> THEN <<>> ELSE Open("mo") \o out \o Close("mo")

\* The table of m between its brackets, in a row if a bracket is visible.
matrixOutput(m) ==
    LET table == Open("mtable") \o rowsOutput(m, 1) \o Close("mtable")
    IN  IF m.br.lout = <<>> /\ m.br.rout = <<>> THEN table
        ELSE Open("mrow") \o bracketOutput(m.br.lout) \o table
                \o bracketOutput(m.br.rout) \o Close("mrow")

\* The input that writes the matrix m and ends without a right bracket.
unclosedInput(m) == m.br.left \o m.sp \o rowsInput(m, 1) \o m.sp

\* The table of m after its left bracket with nothing for a right bracket.
unclosedOutput(m) ==
    LET table == Open("mtable") \o rowsOutput(m, 1) \o Close("mtable")
    IN  IF m.br.lout = <<>> THEN table
        ELSE Open("mrow") \o bracketOutput(m.br.lout) \o table
                \o Close("mrow")

\* The matrices that are written without a right bracket.
UnclosedMatrices == { m \in Matrices : m.k < 2 }

\* A bracket group that ends without a right bracket.
UnclosedGroups == { l \o <<"a">> : l \in {<<"(">>, <<"[">>, <<"{">>} }

\* The matrix left brackets of the symbol table, with what they render.
LeftMatrixBrackets ==
    { [left |-> <<"|", "|", ":">>, lout |-> <<"|">>],
      [left |-> <<"|", ":", ":">>, lout |-> <<>>],
      [left |-> <<"(", "|">>, lout |-> <<"(">>],
      [left |-> <<"[", "|">>, lout |-> <<"[">>],
      [left |-> <<"{", "|">>, lout |-> <<"{">>] }

\* The matrix right brackets of the symbol table, with what they render.
RightMatrixBrackets ==
    { [right |-> <<"|", ")">>, rout |-> <<")">>],
      [right |-> <<"|", "]">>, rout |-> <<"]">>],
      [right |-> <<"|", "}">>, rout |-> <<"}">>],
      [right |-> <<":", "|", "|">>, rout |-> <<"|">>],
      [right |-> <<":", ":", "|">>, rout |-> <<>>] }

\* Every left bracket with every right bracket.
BracketPairs ==
    { [left |-> l.left, right |-> r.right, lout |-> l.lout, rout |-> r.rout] :
        l \in LeftMatrixBrackets, r \in RightMatrixBrackets }

\* A matrix of one cell and one of two rows of two cells between every pair
\* of brackets.
BracketMatrices ==
    [ cells : {<<1>>, <<2, 2>>}, k : {0}, br : BracketPairs,
      sp : {<<>>, <<" ">>} ]

MatrixInputs ==
    Examples \cup { matrixInput(m) : m \in Matrices \cup BracketMatrices }
        \cup { unclosedInput(m) : m \in UnclosedMatrices }
        \cup UnclosedGroups

MatrixSpec == InitOn(MatrixInputs, BOOLEAN) /\ [][Next]_vars

----------------------------------------------------------------------------
(* Reading an output back: the markup a string of units spells.            *)

MarkupDelimiters == {"<", "</", ">", "/>", "=", "\"", " "}

IsName(u) == u \notin MarkupDelimiters

\* out[i..] continues a well-formed fragment, read in the given mode with
\* the elements in open still to be closed.  A start tag is "<", a name,
\* any number of attributes (a blank, a name, "=", and a value between two
\* quotes) and ">" or "/>"; an end tag closes the innermost open element.
RECURSIVE WellFormedFrom(_, _, _, _)
WellFormedFrom(out, i, mode, open) ==
    IF i > Len(out) THEN mode = "content" /\ open = <<>>
    ELSE
      LET u == out[i]
          pop == SubSeq(open, 1, Len(open) - 1)
      IN  CASE mode = "content" ->
                  IF u = "<" THEN WellFormedFrom(out, i + 1, "tagname", open)
                  ELSE IF u = "</"
                  THEN WellFormedFrom(out, i + 1, "closename", open)
                  ELSE WellFormedFrom(out, i + 1, "content", open)
            [] mode = "tagname" ->
                  /\ IsName(u)
                  /\ WellFormedFrom(out, i + 1, "attrs", Append(open, u))
            [] mode = "attrs" ->
                  IF u = ">" THEN WellFormedFrom(out, i + 1, "content", open)
                  ELSE IF u = "/>"
                  THEN WellFormedFrom(out, i + 1, "content", pop)
                  ELSE IF u = " "
                  THEN WellFormedFrom(out, i + 1, "attrname", open)
                  ELSE FALSE
            [] mode = "attrname" ->
                  IsName(u) /\ WellFormedFrom(out, i + 1, "eq", open)
            [] mode = "eq" ->
                  u = "=" /\ WellFormedFrom(out, i + 1, "quote", open)
            [] mode = "quote" ->
                  u = "\"" /\ WellFormedFrom(out, i + 1, "value", open)
            [] mode = "value" ->
                  IF u = "\"" THEN WellFormedFrom(out, i + 1, "attrs", open)
                  ELSE WellFormedFrom(out, i + 1, "value", open)
            [] mode = "closename" ->
                  /\ open # <<>>
                  /\ u = open[Len(open)]
                  /\ WellFormedFrom(out, i + 1, "closeend", pop)
            [] mode = "closeend" ->
                  u = ">" /\ WellFormedFrom(out, i + 1, "content", open)

WellFormed(out) == WellFormedFrom(out, 1, "content", <<>>)

----------------------------------------------------------------------------
(* Reading an input and an output for the properties.                      *)

\* The symbols nextSymbol returns from position p up to the end of input.
RECURSIVE symbolsFrom(_, _)
symbolsFrom(inp, p) ==
    LET nx == nextSymbol(inp, p)
    IN  IF nx.sym.kind = "Eof" THEN <<>>
        ELSE <<nx.sym>> \o symbolsFrom(inp, nx.scan)

\* The number of left brackets of toks[i..] left open, d being open before.
RECURSIVE openBrackets(_, _, _)
openBrackets(toks, i, d) ==
    IF i > Len(toks) THEN d
    ELSE openBrackets(toks, i + 1,
            CASE toks[i].kind = "LeftBracket" -> d + 1
              [] toks[i].kind = "RightBracket" /\ d > 0 -> d - 1
              [] OTHER -> d)

\* The positions of inp from p on at which a token starts or whitespace
\* stands or the last token has ended: the places between tokens.
RECURSIVE boundariesFrom(_, _)
boundariesFrom(inp, p) ==
    LET pk == peekSymbol(inp, p)
    IN  IF pk.sym.kind = "Eof" THEN p..Len(inp)
        ELSE (p..pk.scan) \cup boundariesFrom(inp, pk.pos)

\* inp with the character w inserted after its first k characters.
Insert(inp, k, w) ==
    SubSeq(inp, 1, k) \o <<w>> \o SubSeq(inp, k + 1, Len(inp))

\* Whitespace characters to insert.
Whitespace == {" ", "\n"}

\* Every left bracket of toks has a matching right bracket.
Balanced(toks) == openBrackets(toks, 1, 0) = 0

\* No symbol of toks is the error symbol of an unrecognized character.
Recognized(toks) == \A i \in 1..Len(toks) : toks[i].parser # "error"

\* out contains the fragment frag.
Contains(out, frag) ==
    \E i \in 1..(Len(out) - Len(frag) + 1) :
        SubSeq(out, i, i + Len(frag) - 1) = frag

\* The diagnostic parseSExpr emits in place of a right bracket.
MissingClosingParen ==
    Open("merror") \o Open("mtext") \o <<"Missing closing paren">>
        \o Close("mtext") \o Close("merror")

\* A symbol that is a simple expression by itself and that no parser reads
\* as a script or division operator.
Atomic(sym) ==
    /\ sym.parser \in {"text", "number", "ident", "oper", "textOper",
                        "underOverOper", "leftBracket", "rightBracket"}
    /\ sym.input \notin {<<"_">>, <<"^">>, <<"/">>}

\* No right bracket of toks stands where an operand is read: toks has no
\* matrix symbol and no command with two arguments, and every right bracket
\* directly follows an atomic symbol.
BracketsClose(toks) ==
    \A i \in 1..Len(toks) :
        /\ toks[i].kind \notin {"MatrixLeftBracket", "MatrixRightBracket",
                                 "MatrixCellSep", "MatrixRowSep"}
        /\ toks[i].parser \notin {"binaryEmbedParser", "binaryAttrParser"}
        /\ toks[i].kind = "RightBracket" => i > 1 /\ Atomic(toks[i - 1])

----------------------------------------------------------------------------
(* Properties.                                                             *)

\* C1: whatever the input and the flag, the string asciiToMathML returns is
\* a well-formed fragment: every start tag is syntactically valid and every
\* element opened is closed, in nested order.
C1_WellFormedOutput == status = "done" => WellFormed(result)

\* C2: asciiToMathML terminates for every input: the loops of exprParser,
\* matrixParser and matrixRowParser and the recursion between parseSExpr,
\* the symbol parsers and exprParser eventually return.
C2_Terminates == [](Progresses) /\ <>(status = "done")

\* asciiToMathML has returned for the matrix of the README, parsed by the
\* three loops and the recursion.
C2_Witness ==
    /\ status = "done"
    /\ input = << "[", "|", " ", "a", ";", " ", "b", ";", ";", " ", "c", ";",
                  " ", "d", " ", "|", "]" >>

\* C3 as stated: for an input whose left brackets all have a matching right
\* bracket and that has no unrecognized character, the output contains no
\* "Missing closing paren" diagnostic.
C3_BalancedNoDiagnostic ==
    LET toks == symbolsFrom(input, 0)
    IN  status = "done" /\ Balanced(toks) /\ Recognized(toks)
            => ~Contains(result, MissingClosingParen)

\* C3, amended: for an input whose left brackets all have a matching right
\* bracket, that has no unrecognized character, and in which no right
\* bracket stands where an operand is read (after a script or division
\* operator, after a command, or inside a matrix or a command with two
\* arguments), the output contains no "Missing closing paren" diagnostic.
C3_ClosedGroupsNoDiagnostic ==
    LET toks == symbolsFrom(input, 0)
    IN  status = "done" /\ Balanced(toks) /\ Recognized(toks)
                /\ BracketsClose(toks)
            => ~Contains(result, MissingClosingParen)

\* The sum of cubes of the README, with three nested groups, has been
\* translated.
C3_Witness ==
    /\ status = "done"
    /\ Len(input) = 30 /\ SubSeq(input, 17, 28) =
            <<"(", "{", "n", "(", "n", "+", "1", ")", "}", "/", "2", ")">>
    /\ LET toks == symbolsFrom(input, 0)
       IN  Balanced(toks) /\ Recognized(toks) /\ BracketsClose(toks)
               /\ \E i \in 1..Len(toks) : toks[i].kind = "LeftBracket"

\* Intermediate expressions for the operands of a division.
Operands == { <<"a">>, <<"1">>, <<"2">>, <<"a", "^", "1">> }

\* C4: for intermediate expressions X and Y the input X/Y translates to
\* exactly one fraction element whose children are the fragment of X and
\* then the fragment of Y, and the math element holds nothing else.
C4_SingleFraction ==
    status = "done" =>
        \A X, Y \in Operands :
            input = X \o <<"/">> \o Y =>
                result = mathElement(inline,
                    Open("mfrac") \o exprParser(X) \o exprParser(Y)
                        \o Close("mfrac"))

\* C5: inserting a whitespace character between two adjacent tokens of the
\* input, before the first or after the last, but not inside a quoted text
\* or a numeric literal, does not change the string asciiToMathML returns.
C5_WhitespaceInsertion ==
    status = "done" =>
        \A k \in boundariesFrom(input, 0) : \A w \in Whitespace :
            asciiToMathML(Insert(input, k, w), inline) = result

\* A translated input of several tokens, among them a quoted text and a
\* numeric literal, that has a place between two tokens.
C5_Witness ==
    /\ status = "done"
    /\ LET toks == symbolsFrom(input, 0)
       IN  /\ Len(toks) >= 3
           /\ \E i \in 1..Len(toks) : toks[i].parser = "text"
           /\ \E i \in 1..Len(toks) : toks[i].parser = "number"
    /\ \E k \in boundariesFrom(input, 0) : 0 < k /\ k < Len(input)

\* C6: when the expression of a LeftBracket group is not followed by a
\* RightBracket-kind symbol, parseSExpr returns a closed mrow holding the
\* left bracket, the inner expression and the "Missing closing paren"
\* diagnostic in place of the right bracket, and the translation goes on.
C6_UnterminatedGroup ==
    [][ At(St, "parseSExpr", "exp")
            /\ nextSymbol(input, pos).sym.kind # "RightBracket"
        => /\ Top(St).sym.kind = "LeftBracket"
           /\ ret'.out = Open("mrow")
                    \o leafParser(Top(St).sym, charTables) \o ret.out
                    \o MissingClosingParen \o Close("mrow")
           /\ ret'.sym = Top(St).sym
           /\ status' = "running"
           /\ stack' = SubSeq(stack, 1, Len(stack) - 1) ]_vars

\* parseSExpr has returned the group of the input "(a", which the end of
\* input leaves open.
C6_Witness ==
    /\ input = <<"(", "a">>
    /\ ret.sym.kind = "LeftBracket"
    /\ ret.out = Open("mrow") \o Open("mo") \o <<"(">> \o Close("mo")
            \o Open("mi") \o <<"a">> \o Close("mi")
            \o MissingClosingParen \o Close("mrow")

\* C7: when the character c at the cursor is not a quote, not a digit, and
\* no candidate of the symbol table matches there, the scanner consumes
\* exactly that character and returns a Default-kind error symbol that
\* renders as a diagnostic naming c; scanning goes on with the character
\* after c.
C7_UnknownCharacter ==
    LET q == skipWhitespace(input, pos).value
        c == charAt(input, q)
        syms == symbols(c)
        pk == peekSymbol(input, pos)
        nx == nextSymbol(input, pos)
    IN  (/\ q >= 0
         /\ c # "\"" /\ ~isDigit(c)
         /\ \A i \in 1..Len(syms) :
                slice(input, q, q + Len(syms[i].input)) # syms[i].input)
        => /\ pk.sym.kind = "Default" /\ pk.sym.parser = "error"
           /\ pk.pos = q + 1
           /\ nx.sym = pk.sym /\ nx.scan = q + 1
           /\ leafParser(nx.sym, charTables) =
                Open("merror") \o Open("mtext") \o <<c>> \o Close("mtext")
                    \o Close("merror")
           /\ symbolsFrom(input, pos) = <<nx.sym>> \o symbolsFrom(input, q + 1)

\* parseSExpr has returned the error symbol of a "#" or a "." (the one has
\* no candidates, the candidates of the other do not match) and the cursor
\* stands after that character.
C7_Witness ==
    /\ ret.sym.parser = "error"
    /\ pos > 0 /\ pos <= Len(input)
    /\ ret.sym.a = <<input[pos]>>
    /\ input[pos] \in {"#", "."}
    /\ ret.out = Open("merror") \o Open("mtext") \o <<input[pos]>>
            \o Close("mtext") \o Close("merror")

\* C8: a quoted text without closing quote is scanned to the end of input
\* and returned as a text symbol carrying every character after the
\* opening quote; it renders without diagnostic, and the next scan returns
\* the end of input.
C8_UnterminatedText ==
    LET q == skipWhitespace(input, pos).value
        pk == peekSymbol(input, pos)
        nx == nextSymbol(input, pos)
        out == leafParser(nx.sym, charTables)
    IN  (/\ q >= 0
         /\ charAt(input, q) = "\""
         /\ \A j \in (q + 2)..Len(input) : input[j] # "\"")
        => /\ nx.sym.parser = "text" /\ nx.sym.kind = "Default"
           /\ nx.sym.input = SubSeq(input, q + 2, Len(input))
           /\ nx.scan = Len(input) + 1
           /\ out = Open("mtext")
                    \o convertText(SubSeq(input, q + 2, Len(input)),
                                   charTable(charTables))
                    \o Close("mtext")
           /\ \A i \in 1..Len(out) : out[i] # "merror"
           /\ peekSymbol(input, nx.scan).sym.kind = "Eof"
           /\ nextSymbol(input, nx.scan).scan = nx.scan

\* parseSExpr has returned a text that ran to the end of input: the cursor
\* stands past the end and the input has a single quote.
C8_Witness ==
    /\ ret.sym.parser = "text"
    /\ ret.sym.input # <<>>
    /\ pos = Len(input) + 1
    /\ Cardinality({i \in 1..Len(input) : input[i] = "\""}) = 1
    /\ ret.out = Open("mtext") \o ret.sym.input \o Close("mtext")

\* C9: a numeric literal the scanner returns has at most one decimal
\* separator: a second "." after the digits is not part of the token.
C9_SingleDecimalSeparator ==
    ret.sym.parser = "number" =>
        Cardinality({i \in 1..Len(ret.sym.input) :
                        ret.sym.input[i] = "."}) <= 1

\* C10: for a matrix written with a matrix left bracket, rows separated by
\* ";;", cells separated by ";", and every cell a non-empty complete
\* expression without separators, the table has exactly one row element per
\* row of the input, in order, and in each row exactly one cell element per
\* cell of the input, in order, holding the fragment of that cell.
C10_MatrixRowsAndCells ==
    status = "done" =>
        \A m \in Matrices :
            input = matrixInput(m) =>
                result = mathElement(inline, matrixOutput(m))

\* A matrix of two rows, of one and of two cells, has been translated.
C10_Witness ==
    /\ status = "done"
    /\ \E m \in Matrices :
            /\ input = matrixInput(m)
            /\ m.cells = <<1, 2>>
            /\ m.sp = <<>>

\* C11: any matrix left bracket may be closed by any matrix right bracket,
\* each of the two visible or invisible; the table stands in a row element
\* with the bracket operators if and only if at least one of the two
\* brackets renders, and stands bare when both are invisible.
C11_MatrixBrackets ==
    status = "done" =>
        \A m \in BracketMatrices :
            input = matrixInput(m) =>
                LET table == Open("mtable") \o rowsOutput(m, 1)
                                \o Close("mtable")
                IN  result = mathElement(inline,
                        IF m.br.lout # <<>> \/ m.br.rout # <<>>
                        THEN Open("mrow") \o bracketOutput(m.br.lout)
                                \o table \o bracketOutput(m.br.rout)
                                \o Close("mrow")
                        ELSE table)

\* A matrix whose left bracket is invisible and whose right bracket is not,
\* and one with both brackets invisible, have been translated.
C11_Witness ==
    /\ status = "done"
    /\ \E m \in BracketMatrices :
            /\ input = matrixInput(m)
            /\ m.br.lout = <<>>
            /\ m.br.rout = <<"]">>
            /\ m.cells = <<2, 2>>

\* The number of fraction elements opened in out[i..].
RECURSIVE fractionsFrom(_, _)
fractionsFrom(out, i) ==
    IF i >= Len(out) THEN 0
    ELSE (IF out[i] = "<" /\ out[i + 1] = "mfrac" THEN 1 ELSE 0)
            + fractionsFrom(out, i + 1)

\* The number of division signs among the one-symbol terms toks[i..] that
\* stand directly after a term which is not the denominator of the fraction
\* built just before.
RECURSIVE divisionsFrom(_, _)
divisionsFrom(toks, i) ==
    IF i > Len(toks) THEN 0
    ELSE IF i < Len(toks) /\ toks[i + 1].input = <<"/">>
    THEN 1 + divisionsFrom(toks, i + 3)
    ELSE divisionsFrom(toks, i + 1)

\* C12 as stated: the translation of a run of terms and division signs
\* without brackets holds at most one fraction element.
C12_AtMostOneDivision ==
    (status = "done" /\ input \in Words(DivisionTokens, MaxTerms)) =>
        fractionsFrom(result, 1) <= 1

\* C12: in a run of terms without brackets a division sign builds a
\* fraction exactly when it stands directly after a term that is not the
\* denominator of the fraction built just before; the sign directly after
\* a denominator is read as an ordinary operator term, and later signs of
\* the run divide again.
C12_DivisionAfterEachTerm ==
    (status = "done" /\ input \in Words(DivisionTokens, MaxTerms)) =>
        fractionsFrom(result, 1) = divisionsFrom(symbolsFrom(input, 0), 1)

\* A run with three division signs has been translated to two fractions
\* and an operator between them.
C12_Witness ==
    /\ status = "done"
    /\ input = <<"a", "/", "a", "/", "a", "/">>
    /\ fractionsFrom(result, 1) = 2
    /\ Contains(result, Close("mfrac") \o Open("mo") \o Close("mo"))

\* C13: for an input of whitespace characters only, the empty input
\* included, asciiToMathML returns exactly the math element and its style
\* element with nothing inside.
C13_WhitespaceOnly ==
    (status = "done" /\ input \in Words(Blanks, MaxTokens)) =>
        result = mathElement(inline, <<>>)

\* An input of several different whitespace characters has been translated
\* with the cursor at its end.
C13_Witness ==
    /\ status = "done"
    /\ input = <<" ", "\n", "\t">>
    /\ pos = Len(input)
    /\ result = mathElement(inline, <<>>)

\* C14: the display attribute of the math element is inline exactly when
\* the flag is true and block otherwise, block being the value for a call
\* without the flag; the flag changes nothing else of the returned string.
C14_DisplayAttribute ==
    status = "done" =>
        LET flipped == asciiToMathML(input, ~inline)
        IN  /\ SubSeq(result, 1, 6) = <<"<", "math", " ", "display", "=", "\"">>
            /\ result[7] = (IF inline THEN "inline" ELSE "block")
            /\ flipped[7] = (IF inline THEN "block" ELSE "inline")
            /\ Len(flipped) = Len(result)
            /\ \A i \in 1..Len(result) : i # 7 => flipped[i] = result[i]
            /\ asciiToMathML(input, defaultInline)[7] = "block"

\* A nonempty expression has been translated with the flag set.
C14_Witness ==
    /\ status = "done"
    /\ inline
    /\ input = <<"1", "/", "2">>
    /\ result[7] = "inline"
    /\ Contains(result, Open("mfrac"))

\* The operator element a bracket shows, nothing for a hidden bracket.
bracketShown(out) ==
    IF out = <<>> THEN <<>> ELSE Open("mo") \o out \o Close("mo")

\* C15: the plain curly braces { and } render as nothing wherever the
\* group stands, every other bracket that is not a matrix bracket renders
\* as an operator element with a visible sign, and {: and :} render the
\* curly braces.
C15_BracketVisibility ==
    status = "done" =>
        \A g \in Groups :
            input = groupInput(g) =>
                /\ Contains(result,
                        Open("mrow") \o bracketShown(g.l.lout)
                            \o Open("mi") \o <<"x">> \o Close("mi")
                            \o bracketShown(g.r.rout) \o Close("mrow"))
                /\ (g.l.lout = <<>>) = (g.l.left = <<"{">>)
                /\ (g.r.rout = <<>>) = (g.r.right = <<"}">>)
                /\ g.l.left = <<"{", ":">> => g.l.lout = <<"{">>
                /\ g.r.right = <<":", "}">> => g.r.rout = <<"}">>
                /\ (g.pre = <<>> /\ g.l.lout = <<>> /\ g.r.rout = <<>>) =>
                        result = mathElement(inline,
                            Open("mrow") \o Open("mi") \o <<"x">>
                                \o Close("mi") \o Close("mrow"))

\* A group opened by the visible curly brace and closed by the hidden one
\* has been translated as the argument of a command.
C15_Witness ==
    /\ status = "done"
    /\ input = <<"s", "q", "r", "t", "{", ":", "x", "}">>
    /\ Contains(result,
            Open("msqrt") \o Open("mrow") \o Open("mo") \o <<"{">>
                \o Close("mo") \o Open("mi") \o <<"x">> \o Close("mi")
                \o Close("mrow") \o Close("msqrt"))

\* C16: translation calls share no mutable state.  However the steps of
\* two calls are ordered or interleaved, each call returns the string it
\* returns when it runs alone, so two calls with the same input and flag
\* return the same string; the two Scanners never refer to the same array;
\* and the symbol table and the character tables stay as they were when
\* the module was loaded.
C16_IndependentCalls ==
    /\ status = "done" => result = asciiToMathML(input, inline)
    /\ other.status = "done" =>
            other.result = asciiToMathML(other.input, other.inline)
    /\ (status = "done" /\ other.status = "done"
            /\ other.input = input /\ other.inline = inline) =>
            other.result = result
    /\ other # NoCall => other.charTables # thisArray
    /\ \A a \in DOMAIN ModuleHeap : heap[a] = ModuleHeap[a]

\* The second call, started after the first, has returned the translation
\* of an identifier while the first call is still inside the argument of a
\* font command with its table pushed on its own array.
C16_Witness ==
    /\ status = "running"
    /\ heap[thisArray] # <<>>
    /\ other.status = "done"
    /\ other.input = <<"a">>
    /\ heap[other.charTables] = <<>>
    /\ other.result = mathElement(other.inline,
            Open("mi") \o <<"a">> \o Close("mi"))

\* C17: during a translation the cursor of the scanner never decreases:
\* every step that assigns it, the commits of matrixParser and
\* matrixRowParser at a row separator, a matrix right bracket or the end of
\* the input included, leaves it at or after the position it had.
C17_CursorNeverDecreases == [][pos' >= pos]_vars

\* C18: for every entry of the symbol table, scanning an input that is
\* exactly the pattern of the entry returns that entry and leaves the
\* cursor at the end of the input.
C18_PatternRoundTrip ==
    \A sym \in symbolEntries :
        (input = sym.input /\ pos = 0 /\ Len(stack) = 1) =>
            nextSymbol(input, pos) = [sym |-> sym, scan |-> Len(input)]

\* a is a proper prefix of b.
IsProperPrefix(a, b) == Len(a) < Len(b) /\ SubSeq(b, 1, Len(a)) = a

\* C19: in the bucket of the character at the cursor no pattern stands
\* before a pattern it is a proper prefix of, the patterns stand in
\* non-increasing length, and so the symbol peekSymbol returns is at least
\* as long as every pattern of the bucket that matches at the cursor.
C19_LongestMatchFirst ==
    LET q == skipWhitespace(input, pos).value
        syms == symbols(charAt(input, q))
        pk == peekSymbol(input, pos)
    IN  (status = "running" /\ q >= 0) =>
            /\ \A i, j \in DOMAIN syms :
                    i < j =>
                        /\ Len(syms[i].input) >= Len(syms[j].input)
                        /\ ~IsProperPrefix(syms[i].input, syms[j].input)
            /\ \A j \in DOMAIN syms :
                    slice(input, q, q + Len(syms[j].input)) = syms[j].input
                        => /\ pk.sym \in symbolEntries
                           /\ Len(pk.sym.input) >= Len(syms[j].input)
                           /\ pk.pos = q + Len(pk.sym.input)

\* The cursor stands before a pattern of three characters whose bucket
\* holds two shorter patterns that match there too.
C19_Witness ==
    /\ status = "running"
    /\ input = <<"-", ">", ">">>
    /\ pos = 0
    /\ peekSymbol(input, pos).sym.input = input
    /\ Cardinality({ j \in DOMAIN symbols("-") :
            IsProperPrefix(symbols("-")[j].input, input) }) = 2

\* The number of characters of the input a symbol stands for.
symbolWidth(sym) ==
    CASE sym.parser = "text" -> Len(sym.input) + 2
      [] sym.parser = "error" -> 1
      [] OTHER -> Len(sym.input)

\* C20: peekSymbol moves the cursor over leading whitespace only and
\* returns the next symbol with the position just past it; a second
\* peekSymbol returns the same symbol and position and leaves the cursor
\* where it is; nextSymbol returns the symbol of the peek and sets the
\* cursor to the position the peek reported, and at the end of the input
\* leaves the cursor where the peek left it.
C20_PeekThenNext ==
    LET pk == peekSymbol(input, pos)
        again == peekSymbol(input, pk.scan)
        nx == nextSymbol(input, pos)
    IN  /\ pk.scan >= pos
        /\ \A i \in pos..(pk.scan - 1) : isSpace(charAt(input, i))
        /\ pk.sym.kind # "Eof" =>
                /\ pk.scan < Len(input)
                /\ ~isSpace(charAt(input, pk.scan))
                /\ pk.pos = pk.scan + symbolWidth(pk.sym)
        /\ pk.sym.kind = "Eof" => pk.pos < 0
        /\ again = pk
        /\ nx.sym = pk.sym
        /\ nx.scan = (IF pk.sym.kind = "Eof" THEN pk.scan ELSE pk.pos)
        /\ nextSymbol(input, pk.scan) = nx

\* nextSymbol has skipped the leading whitespace and moved the cursor to
\* the position reported for the identifier; the cursor now stands on
\* whitespace before the end of the input.
C20_Witness ==
    /\ status = "running"
    /\ input = <<" ", "a", " ">>
    /\ pos = 2
    /\ nextSymbol(input, 0).sym.input = <<"a">>
    /\ nextSymbol(input, 0).scan = pos
    /\ peekSymbol(input, pos) = [sym |-> eof, pos |-> -1, scan |-> 3]
    /\ nextSymbol(input, pos).scan = 3

\* The number of font commands among the frames that wait for their
\* argument.
RECURSIVE fontFrames(_, _)
fontFrames(frames, i) ==
    IF i > Len(frames) THEN 0
    ELSE (IF frames[i].proc = "unaryCharTableParser" /\ frames[i].pc = "arg"
          THEN 1 ELSE 0) + fontFrames(frames, i + 1)

\* A step as the font commands allow it: the table stack is left alone,
\* or a font command pushes one table on entry or pops one after its
\* argument, and afterwards the stack holds one table for every font
\* command waiting for its argument.
TableStackStep ==
    /\ \/ charTables' = charTables
       \/ /\ At(St, "unaryCharTableParser", "start")
          /\ Len(charTables') = Len(charTables) + 1
          /\ SubSeq(charTables', 1, Len(charTables)) = charTables
       \/ /\ At(St, "unaryCharTableParser", "arg")
          /\ Len(charTables) = Len(charTables') + 1
          /\ SubSeq(charTables, 1, Len(charTables')) = charTables'
    /\ At(St, "unaryCharTableParser", "start") => charTables' # charTables
    /\ At(St, "unaryCharTableParser", "arg") => charTables' # charTables
    /\ Len(charTables') = fontFrames(stack', 1)
    /\ status' = "done" => charTables' = <<>>

\* C21: a font command pushes exactly one table before it parses its
\* argument and pops exactly one after it, whatever the argument is; no
\* other step changes the table stack; so the depth of the stack when a
\* font command returns is the depth at its entry, and the stack is empty
\* when asciiToMathML returns.
C21_TableStackScoped == [][TableStackStep]_vars

\* Two font commands wait for an argument that is an unknown character.
C21_Witness ==
    /\ input = <<"b", "b", "b", "c", "c", "#">>
    /\ charTables = <<"bbbTable", "calTable">>
    /\ ret.sym.parser = "error"

\* The table a font command switches on.
fontTable(command) ==
    CASE command = <<"b", "b", "b">> -> bbbTable
      [] command = <<"c", "c">> -> calTable
      [] command = <<"f", "r">> -> frkTable

\* The fragment of the identifier A or of the text "a" under a table of
\* 26 capital and 26 small letters, or under no table.
leafOutput(leaf, table) ==
    IF leaf = <<"A">>
    THEN Open("mi") \o (IF table = <<>> THEN <<"A">> ELSE <<table[1]>>)
            \o Close("mi")
    ELSE Open("mtext") \o (IF table = <<>> THEN <<"a">> ELSE <<table[27]>>)
            \o Close("mtext")

\* C22: with a font command inside the argument of another, an identifier
\* or text is rendered with the table of the innermost command around it
\* alone; after the argument of the inner command the table of the outer
\* command is in force again, and after the outer argument none is.
C22_InnermostTable ==
    status = "done" =>
        \A outer, inner \in FontCommands, leaf \in FontLeaves :
            input = nestedInput(outer, inner, leaf) =>
                result = mathElement(inline,
                    Open("mrow") \o Open("mo") \o <<"(">> \o Close("mo")
                        \o leafOutput(leaf, fontTable(outer))
                        \o leafOutput(leaf, fontTable(inner))
                        \o leafOutput(leaf, fontTable(outer))
                        \o Open("mo") \o <<")">> \o Close("mo")
                        \o Close("mrow")
                        \o leafOutput(leaf, <<>>))

\* A text has been rendered under the inner of two different tables.
C22_Witness ==
    /\ input = nestedInput(<<"f", "r">>, <<"c", "c">>, <<"\"", "a", "\"">>)
    /\ charTables = <<"frkTable", "calTable">>
    /\ ret.sym.parser = "text"
    /\ ret.out = Open("mtext") \o <<calTable[27]>> \o Close("mtext")
    /\ calTable[27] # frkTable[27]

\* The element of a base with scripts: by the kind of the base and by
\* which of the two signs follow it.
scriptElement(underOver, hasSub, hasSup) ==
    CASE hasSub /\ hasSup -> IF underOver THEN "munderover" ELSE "msubsup"
      [] hasSub /\ ~hasSup -> IF underOver THEN "munder" ELSE "msub"
      [] ~hasSub /\ hasSup -> IF underOver THEN "mover" ELSE "msup"
      [] OTHER -> "none"

\* The fragment of a script: of its operand, nothing when the input ends
\* after the sign.
scriptOutput(script) ==
    IF Len(script) < 2 THEN <<>>
    ELSE Open("mi") \o <<script[2]>> \o Close("mi")

\* C23: iexprParser renders a base of kind UnderOver bare, as an under
\* element, an over element or an underover element, and any other base
\* bare, as a sub, a sup or a subsup element; which of the four it is
\* follows from the kind of the base and from which of _ and ^ follow the
\* base, and from nothing else.
C23_ScriptShapes ==
    status = "done" =>
        \A sc \in Scripts :
            input = scriptInput(sc) =>
                LET underOver == sc.base = <<"s", "u", "m">>
                    base == IF underOver
                            THEN Open("mo") \o <<"\\u2211">> \o Close("mo")
                            ELSE Open("mi") \o <<"a">> \o Close("mi")
                    tag == scriptElement(underOver, sc.sub # <<>>,
                                         sc.sup # <<>>)
                    children == base \o scriptOutput(sc.sub)
                                    \o scriptOutput(sc.sup)
                IN  result = mathElement(inline,
                        IF tag = "none" THEN base
                        ELSE Open(tag) \o children \o Close(tag))

\* The kinds that belong to the matrix syntax.
MatrixKinds == { "MatrixCellSep", "MatrixRowSep", "MatrixRightBracket" }

\* A matrix is being parsed: matrixParser or matrixRowParser is active.
InMatrix ==
    \E i \in 1..Len(stack) :
        stack[i].proc \in {"matrixParser", "matrixRowParser"}

\* A step of exprParser after an intermediate expression: it returns at
\* the end of the input and at a right bracket, returns at a symbol of the
\* matrix syntax inside a matrix, and goes on at one outside any matrix.
TerminatorStep ==
    (At(St, "exprParser", "iexp") \/ At(St, "exprParser", "quot")) =>
        LET kind == peekSymbol(input, pos).sym.kind
        IN  /\ kind \in {"Eof", "RightBracket"} => Len(stack') < Len(stack)
            /\ (kind \in MatrixKinds /\ InMatrix) => Len(stack') < Len(stack)
            /\ (kind \in MatrixKinds /\ ~InMatrix) =>
                    Len(stack') > Len(stack)

\* C24: the end of the input and a right bracket end a full expression
\* everywhere; a matrix cell separator, a matrix row separator and a
\* matrix right bracket end it only inside a matrix, and outside any
\* matrix exprParser does not stop at them.
C24_MatrixTerminatorsInsideOnly == [][TerminatorStep]_vars

\* C25: when asciiToMathML returns the whole input has been consumed: the
\* next peek of the scanner yields the end of the input, whatever symbols
\* the input holds.
C25_WholeInputConsumed ==
    status = "done" => peekSymbol(input, pos).sym.kind = "Eof"

\* C26: a quoted text is rendered as a text fragment with its content and
\* is never read as an operator: a quoted _, ^ or / after a simple
\* expression starts no subscript, superscript or fraction.
C26_QuotedSignsAreText ==
    status = "done" =>
        \A c \in QuotedContents :
            input = quotedInput(c) =>
                result = mathElement(inline,
                    Open("mi") \o <<"a">> \o Close("mi")
                        \o Open("mtext") \o <<c>> \o Close("mtext")
                        \o Open("mi") \o <<"b">> \o Close("mi"))

\* C27: a character copied from the input into the output, as the content
\* of a quoted text, as the character of an unrecognized-character
\* diagnostic or as the attribute value read by color, is not embedded as
\* it stands when it means something in markup.
C27_CopiedCharactersEscaped ==
    status = "done" =>
        \A c \in MarkupChars :
            /\ input = markupText(c) =>
                    ~Contains(result,
                        Open("mtext") \o <<c>> \o Close("mtext"))
            /\ input = markupUnknown(c) =>
                    ~Contains(result,
                        Open("merror") \o Open("mtext") \o <<c>>
                            \o Close("mtext") \o Close("merror"))
            /\ input = markupAttr(c) =>
                    ~Contains(result, <<"=", "\"", c, "\"", ">">>)

\* The number of children an element of the output must have.
Arity ==
    [ mfrac |-> 2, mroot |-> 2, msub |-> 2, msup |-> 2, munder |-> 2,
      mover |-> 2, msubsup |-> 3, munderover |-> 3, msqrt |-> 1 ]

\* The number of child elements of the element whose content starts at
\* out[j], n of them counted and depth elements open inside it.
RECURSIVE childCount(_, _, _, _)
childCount(out, j, depth, n) ==
    IF j > Len(out) THEN n
    ELSE IF out[j] = "<"
    THEN childCount(out, j + 1, depth + 1, IF depth = 0 THEN n + 1 ELSE n)
    ELSE IF out[j] = "</"
    THEN IF depth = 0 THEN n ELSE childCount(out, j + 1, depth - 1, n)
    ELSE childCount(out, j + 1, depth, n)

\* C28: every element of the output with a fixed number of children has
\* that number for every input: a fraction, a root and the other
\* two-argument constructs two, a square root its one argument, a sub, sup,
\* under or over element its base and script, also when the input ends
\* right after the operator.
C28_FixedArity ==
    status = "done" =>
        \A i \in 1..(Len(result) - 2) :
            (result[i] = "<" /\ result[i + 1] \in DOMAIN Arity
                /\ result[i + 2] = ">") =>
                childCount(result, i + 3, 0, 0) = Arity[result[i + 1]]

\* A peek at the current position returns the end of input only if a peek
\* at the next position does.
EofAbsorbingStep ==
    peekSymbol(input, pos).sym.kind = "Eof"
        => peekSymbol(input', pos').sym.kind = "Eof"

\* C29: the end of input is absorbing for the scanner: once a peek at the
\* cursor returns the end-of-input symbol, a peek at the cursor after any
\* later step of the translation returns it too, whatever the grammar
\* procedures (matrixParser and matrixRowParser committing the position
\* reported with the end of input among them) have assigned to the cursor.
C29_EndOfInputAbsorbing == [][EofAbsorbingStep]_vars

\* matrixRowParser has committed the negative position reported with the
\* end of input of an unterminated matrix, the translation still runs, and
\* a peek returns the end of input again.
C29_Witness ==
    /\ input = <<"[", "|", "a">>
    /\ pos = -1
    /\ status = "running"
    /\ At(St, "matrixParser", "row")
    /\ peekSymbol(input, pos).sym.kind = "Eof"

\* C30: a matrix whose right bracket is missing at the end of input is
\* rendered without a diagnostic, as the table of the rows parsed so far
\* after its left bracket with nothing for the right bracket, while a
\* bracket group that ends without its right bracket is rendered with the
\* "Missing closing paren" diagnostic.
C30_UnclosedMatrixSilent ==
    status = "done" =>
        /\ \A m \in UnclosedMatrices :
                input = unclosedInput(m) =>
                    /\ result = mathElement(inline, unclosedOutput(m))
                    /\ ~Contains(result, <<"<", "merror", ">">>)
        /\ input \in UnclosedGroups => Contains(result, MissingClosingParen)

\* An unterminated matrix of two rows in a visible left bracket has been
\* translated.
C30_Witness ==
    /\ status = "done"
    /\ \E m \in UnclosedMatrices :
            /\ input = unclosedInput(m)
            /\ m.cells = <<2, 1>>
            /\ m.br.lout = <<"[">>
            /\ result = mathElement(inline, unclosedOutput(m))

====
